---- MODULE Spec2Model ----
(***************************************************************************)
(* Message permission engine and DM-request state machine of the chat      *)
(* backend.  The relationship tables (user_blocks, friendships,            *)
(* dm_requests) and the messages table are sets / sequences of rows; every *)
(* service function is a process that performs one database call per step, *)
(* so that the interleavings of concurrent requests are behaviours of the  *)
(* model.  Spec and SpecApp run the calls one at a time (serial), SpecConc  *)
(* lets them overlap.                                                      *)
(*                                                                         *)
(* Translation pipeline of the group chat: sendMessage leaves the          *)
(* enqueueing of translation jobs running behind it, the queue keeps one   *)
(* job per job id, and the worker's executions take jobs, translate and    *)
(* insert message_translations rows.  SpecDispatch sends to a large group  *)
(* (target-language selection), SpecGroup adds reads of the localized      *)
(* messages, SpecWorker adds deletion, provider and queue outages, retries *)
(* and jobs delivered twice after a lock expiry, SpecRevise adds           *)
(* editMessage and setLanguagePreference.                                  *)
(*                                                                         *)
(* SpecPermission and SpecRace start the DM-request flow from any rows of  *)
(* the pair (serial and overlapping), SpecFrame gives both users rows with *)
(* a third user, SpecPairs calls normalizeUserPair on its own.             *)
(***************************************************************************)
EXTENDS Integers, Sequences, FiniteSets, TLC

VARIABLES blocks, friendships, dmRequests, messages, procs, serial,
          chatMembers, prefs, queueUp, providerUp, pairCall, clock, events,
          translations, queue, dispatch, workers

vars == <<blocks, friendships, dmRequests, messages, procs, serial,
          chatMembers, prefs, queueUp, providerUp, pairCall, clock, events,
          translations, queue, dispatch, workers>>

\* What no request writes: chat membership, language preferences, whether
\* the job queue's store and the translation provider answer, the arguments
\* and results of a call of normalizeUserPair on its own, the time, and the
\* events published to the chat rooms (written by the worker only).
envVars == <<chatMembers, prefs, queueUp, providerUp, pairCall, clock, events>>

\* The translation pipeline: message_translations rows, the jobs of the
\* translation queue, the enqueueing left running by sendMessage, and the
\* worker's concurrent executions.
trVars == <<translations, queue, dispatch, workers>>

\* ---------------------------------------------------------------- bounds
\* Number of message rows a behaviour may create.
MaxMessages == 2

\* Number of messages a behaviour may send to the group chat.
MaxGroupMessages == 1

\* Attempts a translation job is given (env TRANSLATION_MAX_RETRIES, at least 1).
TRANSLATION_MAX_RETRIES == 2

\* The time new Date() returns runs from 0 to MaxClock.
MaxClock == 2

\* Largest user id normalizeUserPair is called with on its own.
MaxPairId == 6

\* User ids (ordered like the id strings) and concurrent requests.
Users == {1, 2}
Procs == {1, 2}

\* The DM chat of the two users and one group chat.
DmChat == "dm"
GroupChat == "group"

\* Language codes, and the ones a group member may have chosen.
LangCodes == <<"en", "ka", "es", "de", "fr", "it", "pt", "ru", "ja", "zh", "ar", "tr">>

\* Trimmed, non-empty message texts (sendMessage rejects the others before any
\* database access).
Contents == {<<"h", "i">>}

\* Concurrent executions of the worker's processor (TRANSLATION_CONCURRENCY > 1).
Workers == {1, 2}

\* ---------------------------------------------------------------- helpers
\* (variant: the pair is returned in the order of the arguments)
NormalizeUserPairUnsorted(userId1, userId2) ==
    IF userId1 = userId2
    THEN [error |-> "Error"]
    ELSE [userAId |-> userId1, userBId |-> userId2]
\* throws on equal ids, otherwise the smaller id first
NormalizeUserPair(userId1, userId2) ==
    IF userId1 = userId2
    THEN [error |-> "Error"]
    ELSE IF userId1 < userId2
         THEN [userAId |-> userId1, userBId |-> userId2]
         ELSE [userAId |-> userId2, userBId |-> userId1]

\* prisma.userBlock.findUnique({ blockerId_blockedId })
FindBlock(blockerId, blockedId) ==
    {b \in blocks : b.blockerId = blockerId /\ b.blockedId = blockedId}

\* prisma.friendship.findUnique({ userAId_userBId })
FindFriendship(u1, u2) ==
    {f \in friendships : /\ f.userAId = NormalizeUserPair(u1, u2).userAId
                         /\ f.userBId = NormalizeUserPair(u1, u2).userBId}

\* prisma.dmRequest.findUnique({ userAId_userBId })
FindDmRequest(u1, u2) ==
    {r \in dmRequests : /\ r.userAId = NormalizeUserPair(u1, u2).userAId
                        /\ r.userBId = NormalizeUserPair(u1, u2).userBId}

\* Unique index dm_requests_userAId_userBId_key: an insert for a pair that
\* already has a row is rejected.
\* (variant: the index is missing)
DmRequestUniqueViolationNone(u1, u2) == FALSE
DmRequestUniqueViolation(u1, u2) == FindDmRequest(u1, u2) # {}

\* Unique index friendships_userAId_userBId_key.
FriendshipUniqueViolation(u1, u2) == FindFriendship(u1, u2) # {}

\* Unique index user_blocks_blockerId_blockedId_key.
BlockUniqueViolation(blockerId, blockedId) == FindBlock(blockerId, blockedId) # {}

\* (variant: only the receiver's block is looked up)
CanSendMessageReceiverOnly(senderId, receiverId) ==
    IF FindBlock(receiverId, senderId) # {}
    THEN [allowed |-> FALSE, requiresDmRequest |-> FALSE]
    ELSE IF \E f \in FindFriendship(senderId, receiverId) : f.status = "ACCEPTED"
         THEN [allowed |-> TRUE, requiresDmRequest |-> FALSE]
         ELSE [allowed |-> TRUE, requiresDmRequest |-> TRUE]
\* The permission engine run against the current tables.
CanSendMessage(senderId, receiverId) ==
    IF FindBlock(receiverId, senderId) # {}
    THEN [allowed |-> FALSE, requiresDmRequest |-> FALSE]
    ELSE IF FindBlock(senderId, receiverId) # {}
         THEN [allowed |-> FALSE, requiresDmRequest |-> FALSE]
         ELSE IF \E f \in FindFriendship(senderId, receiverId) : f.status = "ACCEPTED"
              THEN [allowed |-> TRUE, requiresDmRequest |-> FALSE]
              ELSE [allowed |-> TRUE, requiresDmRequest |-> TRUE]

\* ---------------------------------------------------------------- processes
\* The relationship tables as a request finds them when it arrives.
Snapshot == [blocks |-> blocks, friendships |-> friendships,
             dmRequests |-> dmRequests, clock |-> clock]

EmptySnapshot == [blocks |-> {}, friendships |-> {}, dmRequests |-> {}, clock |-> 0]

IdleProc == [op |-> "none", pc |-> "idle", userId |-> 0, otherId |-> 0,
             rowId |-> 0, res |-> "", msg |-> 0, pre |-> EmptySnapshot,
             chatId |-> "", lang |-> "", page |-> <<>>]

InFlight(p) == procs[p].pc \notin {"idle", "done"}

Quiescent == \A q \in Procs : procs[q].pc = "idle"

\* Row ids are generated values: a new row gets an id that no row of its table
\* has and that no request in flight on that table still holds.
BlockOps == {"unblockUser"}
FriendshipOps == {"acceptFriendship", "declineFriendship", "removeFriendship"}
DmRequestOps == {"sendMessage", "createOrUpdateDmRequest",
                 "autoAcceptDmRequestOnReply", "acceptDmRequest",
                 "declineDmRequest", "blockViaDmRequest"}

FreshId(rows, ops) ==
    LET used == {r.id : r \in rows} \cup
                {procs[q].rowId : q \in {q \in Procs : InFlight(q) /\ procs[q].op \in ops}}
    IN  CHOOSE i \in 1..(Cardinality(used) + 1) :
            i \notin used /\ \A j \in 1..(i - 1) : j \in used

\* A request enters a service function; when calls are served one at a time
\* it remembers the tables it found on arrival.  The two users differ: a DM chat has
\* two distinct users, and normalizeUserPair and blockUser reject a call on
\* oneself before any database access.
Call(p, op, pc0, userId, otherId) ==
    /\ procs[p].pc = "idle"
    /\ serial => Quiescent
    /\ userId # otherId
    /\ procs' = [procs EXCEPT ![p] =
                    [op |-> op, pc |-> pc0, userId |-> userId,
                     otherId |-> otherId, rowId |-> 0, res |-> "", msg |-> 0,
                     pre |-> IF serial THEN Snapshot ELSE EmptySnapshot,
                     chatId |-> DmChat, lang |-> "", page |-> <<>>]]
    /\ UNCHANGED <<serial, envVars>>

\* A request on the group chat, or on one of its messages, by one of its
\* members (verifyChatMembership rejects the others before any other access).
\* When calls are served one at a time, a request and an execution of the
\* translation worker do not overlap either: each step of both is one database
\* or queue call, and the enqueueing left running by sendMessage, as well as
\* two executions of the worker, still interleave step by step.
CallChat(p, op, pc0, userId, messageId, lang) ==
    /\ procs[p].pc = "idle"
    /\ serial => (Quiescent /\ \A w \in Workers : workers[w].pc = "idle")
    /\ procs' = [procs EXCEPT ![p] =
                    [op |-> op, pc |-> pc0, userId |-> userId,
                     otherId |-> 0, rowId |-> 0, res |-> "", msg |-> messageId,
                     pre |-> IF serial THEN Snapshot ELSE EmptySnapshot,
                     chatId |-> GroupChat, lang |-> lang, page |-> <<>>]]
    /\ UNCHANGED <<serial, envVars>>

Goto(p, pc1) ==
    /\ procs' = [procs EXCEPT ![p].pc = pc1]
    /\ UNCHANGED <<serial, envVars>>

GotoRow(p, pc1, id) ==
    /\ procs' = [procs EXCEPT ![p].pc = pc1, ![p].rowId = id]
    /\ UNCHANGED <<serial, envVars>>

\* The function returns ("ok") or throws (the error's name).
Finish(p, res) ==
    /\ procs' = [procs EXCEPT ![p].pc = "done", ![p].res = res, ![p].rowId = 0]
    /\ UNCHANGED <<serial, envVars>>

\* The response has been sent; the request is over.
Return(p) ==
    /\ procs[p].pc = "done"
    /\ procs' = [procs EXCEPT ![p] = IdleProc]
    /\ UNCHANGED <<blocks, friendships, dmRequests, messages, serial, envVars, trVars>>

NoJobData == [messageId |-> 0, chatId |-> "", fromLang |-> "", toLang |-> "",
              originalContent |-> <<>>]

IdleWorker == [pc |-> "idle", jobId |-> <<>>, data |-> NoJobData,
               translatedContent |-> <<>>]

\* normalizeUserPair is not being called on its own.
NoPairCall == [userId1 |-> 0, userId2 |-> 0, out |-> {}, swapped |-> {}]

\* Nothing has been sent yet, no job is queued and the worker is idle.
InitPipeline ==
    /\ blocks = {}
    /\ friendships = {}
    /\ dmRequests = {}
    /\ messages = <<>>
    /\ procs = [p \in Procs |-> IdleProc]
    /\ translations = {}
    /\ queue = {}
    /\ dispatch = {}
    /\ workers = [w \in Workers |-> IdleWorker]

\* The two users, their DM chat, and no language preference set.
InitDm ==
    /\ InitPipeline
    /\ chatMembers = [c \in {DmChat, GroupChat} |->
                         IF c = DmChat THEN <<1, 2>> ELSE <<>>]
    /\ prefs = {}
    /\ queueUp = TRUE
    /\ providerUp = TRUE
    /\ pairCall = NoPairCall
    /\ clock = 0
    /\ events = {}

Init ==
    /\ InitDm
    /\ serial = TRUE

\* The same start, with overlapping requests.
InitConc ==
    /\ InitDm
    /\ serial = FALSE

\* ---------------------------------------------------------------- canSendMessage
\* The three reads of canSendMessage, run by sendMessage ("sm_") and, through
\* validateMessagePermission, by createOrUpdateDmRequest ("cou_").
CanSendReceiverBlockedSender(p) ==
    /\ procs[p].pc \in {"sm_perm1", "cou_perm1"}
    /\ IF FindBlock(procs[p].otherId, procs[p].userId) # {}
       THEN Finish(p, "Forbidden")
       ELSE Goto(p, IF procs[p].pc = "sm_perm1" THEN "sm_perm2" ELSE "cou_perm2")
    /\ UNCHANGED <<blocks, friendships, dmRequests, messages, trVars>>

CanSendSenderBlockedReceiver(p) ==
    /\ procs[p].pc \in {"sm_perm2", "cou_perm2"}
    /\ IF FindBlock(procs[p].userId, procs[p].otherId) # {}
       THEN Finish(p, "Forbidden")
       ELSE Goto(p, IF procs[p].pc = "sm_perm2" THEN "sm_perm3" ELSE "cou_perm3")
    /\ UNCHANGED <<blocks, friendships, dmRequests, messages, trVars>>

\* (variant: a PENDING Friendship counts as well)
CanSendFriendshipOrPending(p) ==
    /\ procs[p].pc \in {"sm_perm3", "cou_perm3"}
    /\ LET accepted == \E f \in FindFriendship(procs[p].userId, procs[p].otherId) :
                           f.status \in {"ACCEPTED", "PENDING"}
       IN  IF procs[p].pc = "cou_perm3"
           THEN Goto(p, "cou_find")
           ELSE IF accepted THEN Goto(p, "sm_create") ELSE Goto(p, "sm_find")
    /\ UNCHANGED <<blocks, friendships, dmRequests, messages, trVars>>
CanSendFriendship(p) ==
    /\ procs[p].pc \in {"sm_perm3", "cou_perm3"}
    /\ LET accepted == \E f \in FindFriendship(procs[p].userId, procs[p].otherId) :
                           f.status = "ACCEPTED"
       IN  IF procs[p].pc = "cou_perm3"
           THEN Goto(p, "cou_find")
           ELSE IF accepted THEN Goto(p, "sm_create") ELSE Goto(p, "sm_find")
    /\ UNCHANGED <<blocks, friendships, dmRequests, messages, trVars>>

\* ---------------------------------------------------------------- dm_requests
Pick(S) == CHOOSE x \in S : TRUE

\* (variant: the update also rewrites initiatedById to the pair's other user)
UpdateDmStatusResetInitiator(id, status) ==
    dmRequests' = {IF r.id = id
                   THEN [r EXCEPT !.status = status,
                                  !.initiatedById = IF r.initiatedById = r.userAId
                                                    THEN r.userBId ELSE r.userAId]
                   ELSE r : r \in dmRequests}

\* prisma.dmRequest.update({ where: { id }, data: { status } })
UpdateDmStatus(id, status) ==
    dmRequests' = {IF r.id = id THEN [r EXCEPT !.status = status] ELSE r :
                   r \in dmRequests}

\* prisma.dmRequest.update({ where: { id }, data: { status, lastMessageAt: new Date() } })
UpdateDmStatusAt(id, status) ==
    dmRequests' = {IF r.id = id
                   THEN [r EXCEPT !.status = status, !.lastMessageAt = clock]
                   ELSE r : r \in dmRequests}

\* prisma.dmRequest.update({ where: { id }, data: { lastMessageAt: new Date() } })
TouchDmRequest(id) ==
    dmRequests' = {IF r.id = id THEN [r EXCEPT !.lastMessageAt = clock] ELSE r :
                   r \in dmRequests}

\* (variant: the receiver is recorded as the initiator)
NewDmRequestByReceiver(senderId, receiverId, initiatedById, status) ==
    [id |-> FreshId(dmRequests, DmRequestOps),
     userAId |-> NormalizeUserPair(senderId, receiverId).userAId,
     userBId |-> NormalizeUserPair(senderId, receiverId).userBId,
     initiatedById |-> IF initiatedById = senderId THEN receiverId ELSE senderId,
     status |-> status,
     lastMessageAt |-> clock]

\* prisma.dmRequest.create
NewDmRequest(senderId, receiverId, initiatedById, status) ==
    [id |-> FreshId(dmRequests, DmRequestOps),
     userAId |-> NormalizeUserPair(senderId, receiverId).userAId,
     userBId |-> NormalizeUserPair(senderId, receiverId).userBId,
     initiatedById |-> initiatedById,
     status |-> status,
     lastMessageAt |-> clock]

\* createOrUpdateDmRequest and autoAcceptDmRequestOnReply return to sendMessage
\* when it called them, and to their caller otherwise.
ReturnFromDmStep(p) ==
    IF procs[p].op = "sendMessage" THEN Goto(p, "sm_create") ELSE Finish(p, "ok")

\* ---------------------------------------------------------------- languages
Range(seq) == {seq[i] : i \in 1..Len(seq)}

\* prisma.chatLanguagePreference.findUnique({ chatId_userId })
GetLanguagePreference(userId, chatId) ==
    {r \in prefs : r.chatId = chatId /\ r.userId = userId}

GetDefaultLanguagePreference(userId, chatId) ==
    IF GetLanguagePreference(userId, chatId) # {}
    THEN LET preference == Pick(GetLanguagePreference(userId, chatId))
         IN  [myLanguage |-> preference.myLanguage,
              viewLanguage |-> preference.viewLanguage]
    ELSE [myLanguage |-> "en", viewLanguage |-> "en"]

\* members.forEach(member => viewLanguages.add(preferenceMap.get(...) || 'en')):
\* a Set keeps its values in the order of their first insertion.
RECURSIVE AddViewLanguages(_, _, _)
AddViewLanguages(members, chatId, viewLanguages) ==
    IF members = <<>>
    THEN viewLanguages
    ELSE LET preference == GetLanguagePreference(Head(members), chatId)
             viewLang == IF preference # {} THEN Pick(preference).viewLanguage
                         ELSE "en"
         IN  AddViewLanguages(Tail(members), chatId,
                 IF viewLang \in Range(viewLanguages)
                 THEN viewLanguages
                 ELSE Append(viewLanguages, viewLang))

\* Array.from(viewLanguages), the members taken in the order chatMember.findMany
\* returns them.
GetAllMembersViewLanguages(chatId) ==
    AddViewLanguages(chatMembers[chatId], chatId, <<>>)

\* Safety limit of sendMessage on the target languages of one message.
MaxTargetLanguages == 10

\* (variant: no slice)
LimitTargetLanguagesNoSlice(targetLanguages) == targetLanguages
\* targetLanguages.length > 10 ? targetLanguages.slice(0, 10) : targetLanguages
LimitTargetLanguages(targetLanguages) ==
    IF Len(targetLanguages) > MaxTargetLanguages
    THEN SubSeq(targetLanguages, 1, MaxTargetLanguages)
    ELSE targetLanguages

\* (variant: the sender's language is kept among the targets)
TranslationTargetsKeepOriginal(targetLanguages, originalLang) ==
    LimitTargetLanguages(targetLanguages)
\* limitedTargetLanguages.filter(targetLang => targetLang !== originalLang)
TranslationTargets(targetLanguages, originalLang) ==
    SelectSeq(LimitTargetLanguages(targetLanguages),
              LAMBDA targetLang : targetLang # originalLang)

\* ---------------------------------------------------------------- translation queue
\* jobId = `translation:${data.messageId}:${data.toLang}`, as its three
\* colon-separated parts.
JobId(data) == <<"translation", data.messageId, data.toLang>>

\* (variant: the queue takes every submission as a new job)
QueueAddNoDedup(data) ==
    queue \cup {[id |-> JobId(data), data |-> data, state |-> "waiting",
                 attemptsMade |-> 0, failedReason |-> "", lock |-> 0,
                 stalled |-> FALSE]}
\* translationQueue.add('translate', data, { jobId, attempts, backoff }): a
\* submission whose jobId the queue already knows, in whatever state, is
\* dropped.
QueueAdd(data) ==
    IF \E j \in queue : j.id = JobId(data)
    THEN queue
    ELSE queue \cup {[id |-> JobId(data), data |-> data, state |-> "waiting",
                      attemptsMade |-> 0, failedReason |-> "", lock |-> 0,
                      stalled |-> FALSE]}

\* prisma.messageTranslation.findUnique({ messageId_lang })
FindTranslation(messageId, lang) ==
    {t \in translations : t.messageId = messageId /\ t.lang = lang}

\* ---- sendMessage (DM chat of the two users, or the group chat)
SendMessageCall(p, userId, otherId) ==
    /\ Len(messages) + Cardinality({q \in Procs : InFlight(q) /\ procs[q].op = "sendMessage"})
           < MaxMessages
    /\ Call(p, "sendMessage", "sm_perm1", userId, otherId)
    /\ UNCHANGED <<blocks, friendships, dmRequests, messages, trVars>>

\* (variant: a reply is not recognised and takes the create/update path)
SendMessageFindDmRequestNoReply(p) ==
    /\ procs[p].pc = "sm_find"
    /\ Goto(p, "cou_perm1")
    /\ UNCHANGED <<blocks, friendships, dmRequests, messages, trVars>>

\* existingDmRequest lookup and the choice between reply and create/update
SendMessageFindDmRequest(p) ==
    /\ procs[p].pc = "sm_find"
    /\ IF \E r \in FindDmRequest(procs[p].userId, procs[p].otherId) :
              r.initiatedById = procs[p].otherId /\ r.status = "PENDING"
       THEN Goto(p, "aa_find")
       ELSE Goto(p, "cou_perm1")
    /\ UNCHANGED <<blocks, friendships, dmRequests, messages, trVars>>

\* A member of the group chat sends: chat.type is not 'DM', the permission and
\* DM-request block is skipped.
SendMessageGroupCall(p, userId) ==
    /\ Len(messages) + Cardinality({q \in Procs : InFlight(q) /\ procs[q].op = "sendMessage"})
           < MaxGroupMessages
    /\ userId \in Range(chatMembers[GroupChat])
    /\ CallChat(p, "sendMessage", "sm_create", userId, 0, "")
    /\ UNCHANGED <<blocks, friendships, dmRequests, messages, trVars>>

\* prisma.message.create
SendMessageCreate(p) ==
    /\ procs[p].pc = "sm_create"
    /\ \E content \in Contents :
           messages' = Append(messages, [senderId |-> procs[p].userId,
                                         chatId |-> procs[p].chatId,
                                         content |-> content,
                                         deletedAt |-> FALSE])
    /\ procs' = [procs EXCEPT ![p].pc = "sm_pref", ![p].rowId = 0,
                              ![p].msg = Len(messages) + 1]
    /\ UNCHANGED <<blocks, friendships, dmRequests, serial, envVars, trVars>>

\* senderPref = await getDefaultLanguagePreference(userId, chatId)
SendMessageSenderPref(p) ==
    /\ procs[p].pc = "sm_pref"
    /\ procs' = [procs EXCEPT
                    ![p].pc = "sm_langs",
                    ![p].lang = GetDefaultLanguagePreference(procs[p].userId,
                                                             procs[p].chatId).myLanguage]
    /\ UNCHANGED <<blocks, friendships, dmRequests, messages, serial, envVars, trVars>>

\* targetLanguages = await getAllMembersViewLanguages(chatId), the limit, the
\* filter, and the start of the enqueueing, which sendMessage does not await.
SendMessageTargetLanguages(p) ==
    /\ procs[p].pc = "sm_langs"
    /\ dispatch' = dispatch \cup
           {[messageId |-> procs[p].msg,
             chatId |-> procs[p].chatId,
             fromLang |-> procs[p].lang,
             originalContent |-> messages[procs[p].msg].content,
             todo |-> TranslationTargets(GetAllMembersViewLanguages(procs[p].chatId),
                                         procs[p].lang),
             stage |-> "find", sent |-> {}, skipped |-> {}, error |-> FALSE]}
    /\ Goto(p, "sm_touch")
    /\ UNCHANGED <<blocks, friendships, dmRequests, messages, translations, queue, workers>>

\* (variant: the enqueueing is awaited and its error is thrown to the caller)
SendMessageChatUpdateAwaitsJobs(p) ==
    /\ procs[p].pc = "sm_touch"
    /\ \A d \in dispatch : d.messageId = procs[p].msg => d.todo = <<>>
    /\ IF \E d \in dispatch : d.messageId = procs[p].msg /\ d.error
       THEN Finish(p, "QueueError")
       ELSE Finish(p, "ok")
    /\ UNCHANGED <<blocks, friendships, dmRequests, messages, trVars>>
\* prisma.chat.update({ data: { updatedAt } }) and the return of the message
SendMessageChatUpdate(p) ==
    /\ procs[p].pc = "sm_touch"
    /\ Finish(p, "ok")
    /\ UNCHANGED <<blocks, friendships, dmRequests, messages, trVars>>

\* ---- the enqueueing left running by sendMessage: for each target language
\* in turn, the lookup of an existing translation and addTranslationJob.  The
\* callbacks of different languages touch different (messageId, lang) keys,
\* so running them in list order loses no outcome.
DispatchFindExisting(messageId) ==
    /\ \E d \in dispatch :
           /\ d.messageId = messageId
           /\ d.todo # <<>>
           /\ d.stage = "find"
           /\ dispatch' = (dispatch \ {d}) \cup
                  {IF FindTranslation(d.messageId, Head(d.todo)) # {}
                   THEN [d EXCEPT !.todo = Tail(d.todo),
                                  !.skipped = d.skipped \cup {Head(d.todo)}]
                   ELSE [d EXCEPT !.stage = "add"]}
    /\ UNCHANGED <<blocks, friendships, dmRequests, messages, procs, serial,
                   envVars, translations, queue, workers>>

\* await addTranslationJob({ messageId, chatId, fromLang, toLang, originalContent });
\* a rejection ends in the catch of Promise.all, which logs it.
DispatchAddTranslationJob(messageId) ==
    /\ \E d \in dispatch :
           /\ d.messageId = messageId
           /\ d.todo # <<>>
           /\ d.stage = "add"
           /\ queue' = IF queueUp
                       THEN QueueAdd([messageId |-> d.messageId, chatId |-> d.chatId,
                                      fromLang |-> d.fromLang, toLang |-> Head(d.todo),
                                      originalContent |-> d.originalContent])
                       ELSE queue
           /\ dispatch' = (dispatch \ {d}) \cup
                  {[d EXCEPT !.todo = Tail(d.todo), !.stage = "find",
                             !.sent = d.sent \cup {Head(d.todo)},
                             !.error = d.error \/ ~queueUp]}
    /\ UNCHANGED <<blocks, friendships, dmRequests, messages, procs, serial,
                   envVars, translations, workers>>

\* ---- createOrUpdateDmRequest
CreateOrUpdateDmRequestCall(p, senderId, receiverId) ==
    /\ Call(p, "createOrUpdateDmRequest", "cou_perm1", senderId, receiverId)
    /\ UNCHANGED <<blocks, friendships, dmRequests, messages, trVars>>

\* (variant: a BLOCKED row does not stop the sender)
CreateOrUpdateFindBlockedPasses(p) ==
    /\ procs[p].pc = "cou_find"
    /\ LET found == FindDmRequest(procs[p].userId, procs[p].otherId)
       IN  IF found = {}
           THEN Goto(p, "cou_create")
           ELSE LET existingRequest == Pick(found)
                IN  CASE existingRequest.status \in {"PENDING", "DECLINED"} ->
                             GotoRow(p, "cou_pending", existingRequest.id)
                      [] OTHER -> GotoRow(p, "cou_touch", existingRequest.id)
    /\ UNCHANGED <<blocks, friendships, dmRequests, messages, trVars>>

CreateOrUpdateFind(p) ==
    /\ procs[p].pc = "cou_find"
    /\ LET found == FindDmRequest(procs[p].userId, procs[p].otherId)
       IN  IF found = {}
           THEN Goto(p, "cou_create")
           ELSE LET existingRequest == Pick(found)
                IN  CASE existingRequest.status = "ACCEPTED" ->
                             GotoRow(p, "cou_touch", existingRequest.id)
                      [] existingRequest.status \in {"PENDING", "DECLINED"} ->
                             GotoRow(p, "cou_pending", existingRequest.id)
                      [] OTHER -> Finish(p, "Forbidden")
    /\ UNCHANGED <<blocks, friendships, dmRequests, messages, trVars>>

\* ACCEPTED: nothing is written
CreateOrUpdateTouchNothing(p) ==
    /\ procs[p].pc = "cou_touch"
    /\ ReturnFromDmStep(p)
    /\ UNCHANGED <<blocks, friendships, dmRequests, messages, trVars>>

\* ACCEPTED: only lastMessageAt is written
CreateOrUpdateTouch(p) ==
    /\ procs[p].pc = "cou_touch"
    /\ TouchDmRequest(procs[p].rowId)
    /\ ReturnFromDmStep(p)
    /\ UNCHANGED <<blocks, friendships, messages, trVars>>

\* (variant: only lastMessageAt is written, the status is kept)
CreateOrUpdatePendingTouchOnly(p) ==
    /\ procs[p].pc = "cou_pending"
    /\ TouchDmRequest(procs[p].rowId)
    /\ ReturnFromDmStep(p)
    /\ UNCHANGED <<blocks, friendships, messages, trVars>>

\* PENDING or DECLINED: lastMessageAt is written, and status as PENDING
CreateOrUpdatePending(p) ==
    /\ procs[p].pc = "cou_pending"
    /\ UpdateDmStatusAt(procs[p].rowId, "PENDING")
    /\ ReturnFromDmStep(p)
    /\ UNCHANGED <<blocks, friendships, messages, trVars>>

\* no row was read: insert, which the unique index may reject
CreateOrUpdateCreate(p) ==
    /\ procs[p].pc = "cou_create"
    /\ IF DmRequestUniqueViolation(procs[p].userId, procs[p].otherId)
       THEN /\ Finish(p, "UniqueConstraint")
            /\ UNCHANGED dmRequests
       ELSE /\ dmRequests' = dmRequests \cup
                   {NewDmRequest(procs[p].userId, procs[p].otherId,
                                 procs[p].userId, "PENDING")}
            /\ ReturnFromDmStep(p)
    /\ UNCHANGED <<blocks, friendships, messages, trVars>>

\* ---- autoAcceptDmRequestOnReply(replierId, originalSenderId)
AutoAcceptCall(p, replierId, originalSenderId) ==
    /\ Call(p, "autoAcceptDmRequestOnReply", "aa_find", replierId, originalSenderId)
    /\ UNCHANGED <<blocks, friendships, dmRequests, messages, trVars>>

\* (variant: the replier is not compared with initiatedById)
AutoAcceptFindAnyReplier(p) ==
    /\ procs[p].pc = "aa_find"
    /\ LET found == FindDmRequest(procs[p].userId, procs[p].otherId)
       IN  IF found = {}
           THEN Goto(p, "aa_create")
           ELSE LET dmRequest == Pick(found)
                IN  CASE dmRequest.status = "PENDING" ->
                             GotoRow(p, "aa_accept", dmRequest.id)
                      [] dmRequest.status = "ACCEPTED" ->
                             GotoRow(p, "aa_touch", dmRequest.id)
                      [] OTHER -> ReturnFromDmStep(p)
    /\ UNCHANGED <<blocks, friendships, dmRequests, messages, trVars>>
AutoAcceptFind(p) ==
    /\ procs[p].pc = "aa_find"
    /\ LET found == FindDmRequest(procs[p].userId, procs[p].otherId)
       IN  IF found = {}
           THEN Goto(p, "aa_create")
           ELSE LET dmRequest == Pick(found)
                IN  CASE /\ dmRequest.status = "PENDING"
                         /\ dmRequest.initiatedById # procs[p].userId ->
                             GotoRow(p, "aa_accept", dmRequest.id)
                      [] dmRequest.status = "ACCEPTED" ->
                             GotoRow(p, "aa_touch", dmRequest.id)
                      [] OTHER -> ReturnFromDmStep(p)
    /\ UNCHANGED <<blocks, friendships, dmRequests, messages, trVars>>

AutoAcceptCreate(p) ==
    /\ procs[p].pc = "aa_create"
    /\ IF DmRequestUniqueViolation(procs[p].userId, procs[p].otherId)
       THEN /\ Finish(p, "UniqueConstraint")
            /\ UNCHANGED dmRequests
       ELSE /\ dmRequests' = dmRequests \cup
                   {NewDmRequest(procs[p].userId, procs[p].otherId,
                                 procs[p].otherId, "ACCEPTED")}
            /\ ReturnFromDmStep(p)
    /\ UNCHANGED <<blocks, friendships, messages, trVars>>

AutoAcceptAccept(p) ==
    /\ procs[p].pc = "aa_accept"
    /\ UpdateDmStatusAt(procs[p].rowId, "ACCEPTED")
    /\ ReturnFromDmStep(p)
    /\ UNCHANGED <<blocks, friendships, messages, trVars>>

AutoAcceptTouch(p) ==
    /\ procs[p].pc = "aa_touch"
    /\ TouchDmRequest(procs[p].rowId)
    /\ ReturnFromDmStep(p)
    /\ UNCHANGED <<blocks, friendships, messages, trVars>>

\* ---- acceptDmRequest(userId, senderId)
AcceptDmRequestCall(p, userId, senderId) ==
    /\ Call(p, "acceptDmRequest", "ac_find", userId, senderId)
    /\ UNCHANGED <<blocks, friendships, dmRequests, messages, trVars>>

\* (variant: the status is not checked)
AcceptDmRequestFindAnyStatus(p) ==
    /\ procs[p].pc = "ac_find"
    /\ LET found == FindDmRequest(procs[p].userId, procs[p].otherId)
       IN  IF found = {}
           THEN Finish(p, "NotFound")
           ELSE LET dmRequest == Pick(found)
                IN  IF dmRequest.initiatedById = procs[p].userId
                    THEN Finish(p, "Forbidden")
                    ELSE GotoRow(p, "ac_update", dmRequest.id)
    /\ UNCHANGED <<blocks, friendships, dmRequests, messages, trVars>>
AcceptDmRequestFind(p) ==
    /\ procs[p].pc = "ac_find"
    /\ LET found == FindDmRequest(procs[p].userId, procs[p].otherId)
       IN  IF found = {}
           THEN Finish(p, "NotFound")
           ELSE LET dmRequest == Pick(found)
                IN  CASE dmRequest.initiatedById = procs[p].userId ->
                             Finish(p, "Forbidden")
                      [] dmRequest.status # "PENDING" -> Finish(p, "Conflict")
                      [] OTHER -> GotoRow(p, "ac_update", dmRequest.id)
    /\ UNCHANGED <<blocks, friendships, dmRequests, messages, trVars>>

AcceptDmRequestUpdate(p) ==
    /\ procs[p].pc = "ac_update"
    /\ UpdateDmStatus(procs[p].rowId, "ACCEPTED")
    /\ Finish(p, "ok")
    /\ UNCHANGED <<blocks, friendships, messages, trVars>>

\* ---- declineDmRequest(userId, senderId)
DeclineDmRequestCall(p, userId, senderId) ==
    /\ Call(p, "declineDmRequest", "de_find", userId, senderId)
    /\ UNCHANGED <<blocks, friendships, dmRequests, messages, trVars>>

DeclineDmRequestFind(p) ==
    /\ procs[p].pc = "de_find"
    /\ LET found == FindDmRequest(procs[p].userId, procs[p].otherId)
       IN  IF found = {}
           THEN Finish(p, "NotFound")
           ELSE LET dmRequest == Pick(found)
                IN  IF dmRequest.initiatedById = procs[p].userId
                    THEN Finish(p, "Forbidden")
                    ELSE GotoRow(p, "de_update", dmRequest.id)
    /\ UNCHANGED <<blocks, friendships, dmRequests, messages, trVars>>

DeclineDmRequestUpdate(p) ==
    /\ procs[p].pc = "de_update"
    /\ UpdateDmStatus(procs[p].rowId, "DECLINED")
    /\ Finish(p, "ok")
    /\ UNCHANGED <<blocks, friendships, messages, trVars>>

\* ---- blockViaDmRequest(userId, senderId)
BlockViaDmRequestCall(p, userId, senderId) ==
    /\ Call(p, "blockViaDmRequest", "bv_find", userId, senderId)
    /\ UNCHANGED <<blocks, friendships, dmRequests, messages, trVars>>

BlockViaDmRequestFind(p) ==
    /\ procs[p].pc = "bv_find"
    /\ LET found == FindDmRequest(procs[p].userId, procs[p].otherId)
       IN  IF found = {}
           THEN Finish(p, "NotFound")
           ELSE LET dmRequest == Pick(found)
                IN  IF dmRequest.initiatedById = procs[p].userId
                    THEN Finish(p, "Forbidden")
                    ELSE GotoRow(p, "bv_update", dmRequest.id)
    /\ UNCHANGED <<blocks, friendships, dmRequests, messages, trVars>>

BlockViaDmRequestUpdate(p) ==
    /\ procs[p].pc = "bv_update"
    /\ UpdateDmStatus(procs[p].rowId, "BLOCKED")
    /\ Goto(p, "bv_upsert")
    /\ UNCHANGED <<blocks, friendships, messages, trVars>>

\* (variant: create instead of upsert)
BlockViaDmRequestCreateOnly(p) ==
    /\ procs[p].pc = "bv_upsert"
    /\ IF BlockUniqueViolation(procs[p].userId, procs[p].otherId)
       THEN /\ UNCHANGED blocks
            /\ Finish(p, "UniqueConstraint")
       ELSE /\ blocks' = blocks \cup {[id |-> FreshId(blocks, BlockOps),
                                       blockerId |-> procs[p].userId,
                                       blockedId |-> procs[p].otherId]}
            /\ Finish(p, "ok")
    /\ UNCHANGED <<friendships, dmRequests, messages, trVars>>

\* prisma.userBlock.upsert with update: {}
BlockViaDmRequestUpsert(p) ==
    /\ procs[p].pc = "bv_upsert"
    /\ IF FindBlock(procs[p].userId, procs[p].otherId) # {}
       THEN UNCHANGED blocks
       ELSE blocks' = blocks \cup {[id |-> FreshId(blocks, BlockOps),
                                    blockerId |-> procs[p].userId,
                                    blockedId |-> procs[p].otherId]}
    /\ Finish(p, "ok")
    /\ UNCHANGED <<friendships, dmRequests, messages, trVars>>

\* ---------------------------------------------------------------- user_blocks
\* ---- blockUser(blockerId, blockedId)
BlockUserCall(p, blockerId, blockedId) ==
    /\ Call(p, "blockUser", "bu_find", blockerId, blockedId)
    /\ UNCHANGED <<blocks, friendships, dmRequests, messages, trVars>>

BlockUserFind(p) ==
    /\ procs[p].pc = "bu_find"
    /\ IF FindBlock(procs[p].userId, procs[p].otherId) # {}
       THEN Finish(p, "Conflict")
       ELSE Goto(p, "bu_create")
    /\ UNCHANGED <<blocks, friendships, dmRequests, messages, trVars>>

BlockUserCreate(p) ==
    /\ procs[p].pc = "bu_create"
    /\ IF BlockUniqueViolation(procs[p].userId, procs[p].otherId)
       THEN /\ Finish(p, "UniqueConstraint")
            /\ UNCHANGED blocks
       ELSE /\ blocks' = blocks \cup {[id |-> FreshId(blocks, BlockOps),
                                       blockerId |-> procs[p].userId,
                                       blockedId |-> procs[p].otherId]}
            /\ Goto(p, "bu_decline")
    /\ UNCHANGED <<friendships, dmRequests, messages, trVars>>

\* (variant: the where clause names the status only)
BlockUserDeclineEveryPending(p) ==
    /\ procs[p].pc = "bu_decline"
    /\ friendships' =
           {IF f.status = "PENDING"
            THEN [f EXCEPT !.status = "DECLINED"] ELSE f : f \in friendships}
    /\ Finish(p, "ok")
    /\ UNCHANGED <<blocks, dmRequests, messages, trVars>>

\* prisma.friendship.updateMany({ where: { pair, status: PENDING } })
BlockUserDeclinePending(p) ==
    /\ procs[p].pc = "bu_decline"
    /\ friendships' =
           {IF f \in FindFriendship(procs[p].userId, procs[p].otherId)
                   /\ f.status = "PENDING"
            THEN [f EXCEPT !.status = "DECLINED"] ELSE f : f \in friendships}
    /\ Finish(p, "ok")
    /\ UNCHANGED <<blocks, dmRequests, messages, trVars>>

\* ---- unblockUser(blockerId, blockedId)
UnblockUserCall(p, blockerId, blockedId) ==
    /\ Call(p, "unblockUser", "ub_find", blockerId, blockedId)
    /\ UNCHANGED <<blocks, friendships, dmRequests, messages, trVars>>

UnblockUserFind(p) ==
    /\ procs[p].pc = "ub_find"
    /\ LET found == FindBlock(procs[p].userId, procs[p].otherId)
       IN  IF found = {}
           THEN Finish(p, "NotFound")
           ELSE GotoRow(p, "ub_delete", Pick(found).id)
    /\ UNCHANGED <<blocks, friendships, dmRequests, messages, trVars>>

\* prisma.userBlock.delete({ where: { id } })
UnblockUserDelete(p) ==
    /\ procs[p].pc = "ub_delete"
    /\ IF \E b \in blocks : b.id = procs[p].rowId
       THEN /\ blocks' = {b \in blocks : b.id # procs[p].rowId}
            /\ Finish(p, "ok")
       ELSE /\ UNCHANGED blocks
            /\ Finish(p, "RecordNotFound")
    /\ UNCHANGED <<friendships, dmRequests, messages, trVars>>

\* ---------------------------------------------------------------- friendships
\* prisma.friendship.update({ where: { id }, data: { status } })
UpdateFriendshipStatus(p, status) ==
    IF \E f \in friendships : f.id = procs[p].rowId
    THEN /\ friendships' = {IF f.id = procs[p].rowId
                            THEN [f EXCEPT !.status = status] ELSE f :
                            f \in friendships}
         /\ Finish(p, "ok")
    ELSE /\ UNCHANGED friendships
         /\ Finish(p, "RecordNotFound")

\* ---- requestFriendship(requesterId, addresseeId)
RequestFriendshipCall(p, requesterId, addresseeId) ==
    /\ Call(p, "requestFriendship", "rf_find", requesterId, addresseeId)
    /\ UNCHANGED <<blocks, friendships, dmRequests, messages, trVars>>

RequestFriendshipFind(p) ==
    /\ procs[p].pc = "rf_find"
    /\ LET found == FindFriendship(procs[p].userId, procs[p].otherId)
       IN  IF found = {}
           THEN Goto(p, "rf_block")
           ELSE LET existingFriendship == Pick(found)
                IN  CASE existingFriendship.status \in {"PENDING", "ACCEPTED"} ->
                             Finish(p, "Conflict")
                      [] existingFriendship.status = "BLOCKED" ->
                             Finish(p, "Forbidden")
                      [] OTHER -> Goto(p, "rf_block")
    /\ UNCHANGED <<blocks, friendships, dmRequests, messages, trVars>>

\* prisma.userBlock.findFirst in either direction
RequestFriendshipBlockCheck(p) ==
    /\ procs[p].pc = "rf_block"
    /\ IF FindBlock(procs[p].otherId, procs[p].userId) # {}
              \/ FindBlock(procs[p].userId, procs[p].otherId) # {}
       THEN Finish(p, "Forbidden")
       ELSE Goto(p, "rf_create")
    /\ UNCHANGED <<blocks, friendships, dmRequests, messages, trVars>>

RequestFriendshipCreate(p) ==
    /\ procs[p].pc = "rf_create"
    /\ IF FriendshipUniqueViolation(procs[p].userId, procs[p].otherId)
       THEN /\ Finish(p, "UniqueConstraint")
            /\ UNCHANGED friendships
       ELSE /\ friendships' = friendships \cup
                   {[id |-> FreshId(friendships, FriendshipOps),
                     userAId |-> NormalizeUserPair(procs[p].userId, procs[p].otherId).userAId,
                     userBId |-> NormalizeUserPair(procs[p].userId, procs[p].otherId).userBId,
                     requestedById |-> procs[p].userId,
                     status |-> "PENDING"]}
            /\ Finish(p, "ok")
    /\ UNCHANGED <<blocks, dmRequests, messages, trVars>>

\* ---- acceptFriendship(userId, friendId)
AcceptFriendshipCall(p, userId, friendId) ==
    /\ Call(p, "acceptFriendship", "af_find", userId, friendId)
    /\ UNCHANGED <<blocks, friendships, dmRequests, messages, trVars>>

\* (variant: the requester may accept)
AcceptFriendshipFindAnyCaller(p) ==
    /\ procs[p].pc = "af_find"
    /\ LET found == FindFriendship(procs[p].userId, procs[p].otherId)
       IN  IF found = {}
           THEN Finish(p, "NotFound")
           ELSE LET friendship == Pick(found)
                IN  IF friendship.status # "PENDING"
                    THEN Finish(p, "Conflict")
                    ELSE GotoRow(p, "af_update", friendship.id)
    /\ UNCHANGED <<blocks, friendships, dmRequests, messages, trVars>>
AcceptFriendshipFind(p) ==
    /\ procs[p].pc = "af_find"
    /\ LET found == FindFriendship(procs[p].userId, procs[p].otherId)
       IN  IF found = {}
           THEN Finish(p, "NotFound")
           ELSE LET friendship == Pick(found)
                IN  CASE friendship.requestedById = procs[p].userId ->
                             Finish(p, "Forbidden")
                      [] friendship.status # "PENDING" -> Finish(p, "Conflict")
                      [] OTHER -> GotoRow(p, "af_update", friendship.id)
    /\ UNCHANGED <<blocks, friendships, dmRequests, messages, trVars>>

AcceptFriendshipUpdate(p) ==
    /\ procs[p].pc = "af_update"
    /\ UpdateFriendshipStatus(p, "ACCEPTED")
    /\ UNCHANGED <<blocks, dmRequests, messages, trVars>>

\* ---- declineFriendship(userId, friendId)
DeclineFriendshipCall(p, userId, friendId) ==
    /\ Call(p, "declineFriendship", "df_find", userId, friendId)
    /\ UNCHANGED <<blocks, friendships, dmRequests, messages, trVars>>

DeclineFriendshipFind(p) ==
    /\ procs[p].pc = "df_find"
    /\ LET found == FindFriendship(procs[p].userId, procs[p].otherId)
       IN  IF found = {}
           THEN Finish(p, "NotFound")
           ELSE LET friendship == Pick(found)
                IN  IF friendship.requestedById = procs[p].userId
                    THEN Finish(p, "Forbidden")
                    ELSE GotoRow(p, "df_update", friendship.id)
    /\ UNCHANGED <<blocks, friendships, dmRequests, messages, trVars>>

DeclineFriendshipUpdate(p) ==
    /\ procs[p].pc = "df_update"
    /\ UpdateFriendshipStatus(p, "DECLINED")
    /\ UNCHANGED <<blocks, dmRequests, messages, trVars>>

\* ---- removeFriendship(userId, friendId)
RemoveFriendshipCall(p, userId, friendId) ==
    /\ Call(p, "removeFriendship", "rm_find", userId, friendId)
    /\ UNCHANGED <<blocks, friendships, dmRequests, messages, trVars>>

RemoveFriendshipFind(p) ==
    /\ procs[p].pc = "rm_find"
    /\ LET found == FindFriendship(procs[p].userId, procs[p].otherId)
       IN  IF found = {}
           THEN Finish(p, "NotFound")
           ELSE GotoRow(p, "rm_delete", Pick(found).id)
    /\ UNCHANGED <<blocks, friendships, dmRequests, messages, trVars>>

\* prisma.friendship.delete({ where: { id } })
RemoveFriendshipDelete(p) ==
    /\ procs[p].pc = "rm_delete"
    /\ IF \E f \in friendships : f.id = procs[p].rowId
       THEN /\ friendships' = {f \in friendships : f.id # procs[p].rowId}
            /\ Finish(p, "ok")
       ELSE /\ UNCHANGED friendships
            /\ Finish(p, "RecordNotFound")
    /\ UNCHANGED <<blocks, dmRequests, messages, trVars>>

\* ---------------------------------------------------------------- messages
\* ---- deleteMessage(userId, messageId)
DeleteMessageCall(p, userId, messageId) ==
    /\ userId \in Range(chatMembers[GroupChat])
    /\ messageId \in 1..Len(messages)
    /\ CallChat(p, "deleteMessage", "del_find", userId, messageId, "")
    /\ UNCHANGED <<blocks, friendships, dmRequests, messages, trVars>>

DeleteMessageFind(p) ==
    /\ procs[p].pc = "del_find"
    /\ IF procs[p].msg \notin 1..Len(messages)
       THEN Finish(p, "NotFound")
       ELSE IF messages[procs[p].msg].senderId # procs[p].userId
            THEN Finish(p, "Forbidden")
            ELSE IF messages[procs[p].msg].deletedAt
                 THEN Finish(p, "Forbidden")
                 ELSE Goto(p, "del_update")
    /\ UNCHANGED <<blocks, friendships, dmRequests, messages, trVars>>

\* prisma.message.update({ data: { deletedAt } })
DeleteMessageUpdate(p) ==
    /\ procs[p].pc = "del_update"
    /\ messages' = [messages EXCEPT ![procs[p].msg].deletedAt = TRUE]
    /\ Finish(p, "ok")
    /\ UNCHANGED <<blocks, friendships, dmRequests, trVars>>

\* ---- editMessage(userId, messageId, content)
\* Trimmed, non-empty texts a message is edited to.
EditedContents == {<<"y", "o">>}

EditMessageCall(p, userId, messageId) ==
    /\ userId \in Range(chatMembers[GroupChat])
    /\ messageId \in 1..Len(messages)
    /\ CallChat(p, "editMessage", "edit_find", userId, messageId, "")
    /\ UNCHANGED <<blocks, friendships, dmRequests, messages, trVars>>

\* prisma.message.findUnique and the checks on the message
EditMessageFind(p) ==
    /\ procs[p].pc = "edit_find"
    /\ IF procs[p].msg \notin 1..Len(messages)
       THEN Finish(p, "NotFound")
       ELSE IF messages[procs[p].msg].senderId # procs[p].userId
            THEN Finish(p, "Forbidden")
            ELSE IF messages[procs[p].msg].deletedAt
                 THEN Finish(p, "Forbidden")
                 ELSE Goto(p, "edit_update")
    /\ UNCHANGED <<blocks, friendships, dmRequests, messages, trVars>>

\* prisma.message.update({ data: { content: content.trim(), editedAt } }) with
\* the content of the call, and the return of the edited message; neither
\* message_translations nor the queue is touched.
EditMessageUpdate(p) ==
    /\ procs[p].pc = "edit_update"
    /\ \E content \in EditedContents :
           messages' = [messages EXCEPT ![procs[p].msg].content = content]
    /\ Finish(p, "ok")
    /\ UNCHANGED <<blocks, friendships, dmRequests, trVars>>

\* ---- setLanguagePreference(userId, chatId, myLanguage, viewLanguage)
\* Trimmed, non-empty language codes of the call.
PreferenceLanguages == {"en", "es"}

\* verifyChatMembership(userId, chatId) lets members through.
SetLanguagePreferenceCall(p, userId) ==
    /\ userId \in Range(chatMembers[GroupChat])
    /\ CallChat(p, "setLanguagePreference", "slp_upsert", userId, 0, "")
    /\ UNCHANGED <<blocks, friendships, dmRequests, messages, trVars>>

\* prisma.chatLanguagePreference.upsert({ where: { chatId_userId }, create,
\* update }) with the two languages of the call.
SetLanguagePreferenceUpsert(p) ==
    /\ procs[p].pc = "slp_upsert"
    /\ \E myLanguage \in PreferenceLanguages, viewLanguage \in PreferenceLanguages :
           prefs' = (prefs \ GetLanguagePreference(procs[p].userId, procs[p].chatId))
                        \cup {[chatId |-> procs[p].chatId, userId |-> procs[p].userId,
                               myLanguage |-> myLanguage,
                               viewLanguage |-> viewLanguage]}
    /\ procs' = [procs EXCEPT ![p].pc = "done", ![p].res = "ok", ![p].rowId = 0]
    /\ UNCHANGED <<blocks, friendships, dmRequests, messages, serial, chatMembers,
                   queueUp, providerUp, pairCall, clock, events, trVars>>

\* ---- getMessages(userId, chatId), without cursor
\* Default page size of getMessages.
DefaultLimit == 30

\* The reader reads the sender's language: the message as it was written,
\* without contentOriginal.
LocalizedOriginal(id, originalLang) ==
    [id |-> id, senderId |-> messages[id].senderId,
     content |-> messages[id].content,
     langOriginal |-> originalLang, langShown |-> originalLang]

\* (variant: the fallback carries a contentOriginal)
LocalizedFallbackWithOriginal(id, originalLang) ==
    [id |-> id, senderId |-> messages[id].senderId,
     content |-> messages[id].content,
     contentOriginal |-> messages[id].content,
     langOriginal |-> originalLang, langShown |-> originalLang]
\* No translation is stored: the original again.
LocalizedFallback(id, originalLang) ==
    [id |-> id, senderId |-> messages[id].senderId,
     content |-> messages[id].content,
     langOriginal |-> originalLang, langShown |-> originalLang]

\* (variant: the original text is returned as content)
LocalizedTranslationKeepsOriginal(id, translation, originalLang, requesterViewLang) ==
    [id |-> id, senderId |-> messages[id].senderId,
     content |-> messages[id].content,
     contentOriginal |-> messages[id].content,
     langOriginal |-> originalLang, langShown |-> requesterViewLang]
\* The stored translation, with the original next to it.
LocalizedTranslation(id, translation, originalLang, requesterViewLang) ==
    [id |-> id, senderId |-> messages[id].senderId,
     content |-> translation.content,
     contentOriginal |-> messages[id].content,
     langOriginal |-> originalLang, langShown |-> requesterViewLang]

\* (variant: a stored translation is used before the languages are compared)
LocalizeMessageTranslationFirst(id, requesterViewLang) ==
    LET originalLang == GetDefaultLanguagePreference(messages[id].senderId,
                                                     messages[id].chatId).myLanguage
        found == FindTranslation(id, requesterViewLang)
    IN  IF found # {}
        THEN LocalizedTranslation(id, Pick(found), originalLang, requesterViewLang)
        ELSE LocalizedFallback(id, originalLang)
\* The callback of messagesToReturn.map: msg.translations.find(t => t.lang ===
\* requesterViewLang) is the row of (msg.id, requesterViewLang).
LocalizeMessage(id, requesterViewLang) ==
    LET originalLang == GetDefaultLanguagePreference(messages[id].senderId,
                                                     messages[id].chatId).myLanguage
        found == FindTranslation(id, requesterViewLang)
    IN  IF requesterViewLang = originalLang
        THEN LocalizedOriginal(id, originalLang)
        ELSE IF found # {}
             THEN LocalizedTranslation(id, Pick(found), originalLang, requesterViewLang)
             ELSE LocalizedFallback(id, originalLang)

\* prisma.message.findMany({ where: { chatId, deletedAt: null }, orderBy:
\* createdAt asc, take: limit + 1 }), cut to the page.
MessagesToReturn(chatId) ==
    LET found == SelectSeq([i \in 1..Len(messages) |-> i],
                           LAMBDA i : messages[i].chatId = chatId /\ ~messages[i].deletedAt)
    IN  IF Len(found) > DefaultLimit THEN SubSeq(found, 1, DefaultLimit) ELSE found

GetMessagesCall(p, userId) ==
    /\ userId \in Range(chatMembers[GroupChat])
    /\ messages # <<>>
    /\ CallChat(p, "getMessages", "gm_pref", userId, 0, "")
    /\ UNCHANGED <<blocks, friendships, dmRequests, messages, trVars>>

\* requesterPref = await getDefaultLanguagePreference(userId, chatId)
GetMessagesRequesterPref(p) ==
    /\ procs[p].pc = "gm_pref"
    /\ procs' = [procs EXCEPT
                    ![p].pc = "gm_find",
                    ![p].lang = GetDefaultLanguagePreference(procs[p].userId,
                                                             procs[p].chatId).viewLanguage]
    /\ UNCHANGED <<blocks, friendships, dmRequests, messages, serial, envVars, trVars>>

\* findMany with the translations included, and the localization of the page
GetMessagesFind(p) ==
    /\ procs[p].pc = "gm_find"
    /\ LET messagesToReturn == MessagesToReturn(procs[p].chatId)
       IN  procs' = [procs EXCEPT
                       ![p].pc = "done", ![p].res = "ok",
                       ![p].page = [k \in 1..Len(messagesToReturn) |->
                                       LocalizeMessage(messagesToReturn[k], procs[p].lang)]]
    /\ UNCHANGED <<blocks, friendships, dmRequests, messages, serial, envVars, trVars>>

\* ---- addTranslationJob(data), called for a stored message outside sendMessage
AddTranslationJobCall(p, messageId, toLang) ==
    /\ messageId \in 1..Len(messages)
    /\ CallChat(p, "addTranslationJob", "atj_add", 0, messageId, toLang)
    /\ UNCHANGED <<blocks, friendships, dmRequests, messages, trVars>>

AddTranslationJobAdd(p) ==
    /\ procs[p].pc = "atj_add"
    /\ IF queueUp
       THEN /\ queue' = QueueAdd(
                   [messageId |-> procs[p].msg, chatId |-> procs[p].chatId,
                    fromLang |-> GetDefaultLanguagePreference(
                                     messages[procs[p].msg].senderId,
                                     procs[p].chatId).myLanguage,
                    toLang |-> procs[p].lang,
                    originalContent |-> messages[procs[p].msg].content])
            /\ Finish(p, "ok")
       ELSE /\ UNCHANGED queue
            /\ Finish(p, "QueueError")
    /\ UNCHANGED <<blocks, friendships, dmRequests, messages, translations, dispatch, workers>>

\* ---------------------------------------------------------------- translation worker
\* The queue hands a waiting job to a free execution of the processor and
\* locks it for that execution (between requests when calls are served one
\* at a time).
WorkerTake(w) ==
    /\ queueUp
    /\ serial => Quiescent
    /\ workers[w].pc = "idle"
    /\ \E j \in queue :
           /\ j.state = "waiting"
           /\ queue' = (queue \ {j}) \cup {[j EXCEPT !.state = "active", !.lock = w]}
           /\ workers' = [workers EXCEPT ![w] =
                             [pc |-> "w_message", jobId |-> j.id, data |-> j.data,
                              translatedContent |-> <<>>]]
    /\ UNCHANGED <<blocks, friendships, dmRequests, messages, procs, serial,
                   envVars, translations, dispatch>>

\* (variant: a failed attempt is never followed by another)
JobFailedNoRetry(w, reason) ==
    /\ queue' = {IF j.id = workers[w].jobId /\ j.state = "active" /\ j.lock = w
                 THEN [j EXCEPT !.attemptsMade = j.attemptsMade + 1,
                                !.failedReason = reason,
                                !.lock = 0,
                                !.state = "failed"]
                 ELSE j : j \in queue}
    /\ workers' = [workers EXCEPT ![w] = IdleWorker]
\* The processor threw: the attempt is counted and recorded as failed, and the
\* job waits for its next attempt (after the backoff delay) while attempts are
\* left.  An execution that has lost the job's lock reports nothing.
JobFailed(w, reason) ==
    /\ queue' = {IF j.id = workers[w].jobId /\ j.state = "active" /\ j.lock = w
                 THEN [j EXCEPT !.attemptsMade = j.attemptsMade + 1,
                                !.failedReason = reason,
                                !.lock = 0,
                                !.state = IF j.attemptsMade + 1 < TRANSLATION_MAX_RETRIES
                                          THEN "waiting" ELSE "failed"]
                 ELSE j : j \in queue}
    /\ workers' = [workers EXCEPT ![w] = IdleWorker]

\* The processor returned.
JobCompleted(w) ==
    /\ queue' = {IF j.id = workers[w].jobId /\ j.state = "active" /\ j.lock = w
                 THEN [j EXCEPT !.attemptsMade = j.attemptsMade + 1,
                                !.lock = 0,
                                !.state = "completed"]
                 ELSE j : j \in queue}
    /\ workers' = [workers EXCEPT ![w] = IdleWorker]

WorkerGoto(w, pc1) ==
    /\ workers' = [workers EXCEPT ![w].pc = pc1]
    /\ UNCHANGED queue

\* prisma.message.findUnique({ where: { id: messageId } }); a missing or
\* soft-deleted message is thrown as a plain Error.
WorkerFindMessage(w) ==
    /\ workers[w].pc = "w_message"
    /\ IF \/ workers[w].data.messageId \notin 1..Len(messages)
          \/ messages[workers[w].data.messageId].deletedAt
       THEN JobFailed(w, "MessageGone")
       ELSE WorkerGoto(w, "w_existing")
    /\ UNCHANGED <<blocks, friendships, dmRequests, messages, procs, serial,
                   envVars, translations, dispatch>>

\* prisma.messageTranslation.findUnique({ messageId_lang }): skip when found
WorkerFindExisting(w) ==
    /\ workers[w].pc = "w_existing"
    /\ IF FindTranslation(workers[w].data.messageId, workers[w].data.toLang) # {}
       THEN JobCompleted(w)
       ELSE WorkerGoto(w, "w_translate")
    /\ UNCHANGED <<blocks, friendships, dmRequests, messages, procs, serial,
                   envVars, translations, dispatch>>

\* MockTranslationProvider.translate: the text reversed.
RECURSIVE Translate(_)
Translate(text) ==
    IF text = <<>> THEN <<>> ELSE Append(Translate(Tail(text)), Head(text))

\* await provider.translate(originalContent, fromLang, toLang); the provider
\* throws when it cannot answer.
WorkerTranslate(w) ==
    /\ workers[w].pc = "w_translate"
    /\ IF providerUp
       THEN /\ workers' = [workers EXCEPT
                              ![w].pc = "w_create",
                              ![w].translatedContent =
                                  Translate(workers[w].data.originalContent)]
            /\ UNCHANGED queue
       ELSE JobFailed(w, "ProviderError")
    /\ UNCHANGED <<blocks, friendships, dmRequests, messages, procs, serial,
                   envVars, translations, dispatch>>

\* Unique index message_translations_messageId_lang_key.
\* (variant: the index is missing)
TranslationUniqueViolationNone(messageId, lang) == FALSE
TranslationUniqueViolation(messageId, lang) == FindTranslation(messageId, lang) # {}

\* prisma.messageTranslation.create, outside any try/catch: a rejected insert
\* is thrown out of the processor.
WorkerCreate(w) ==
    /\ workers[w].pc = "w_create"
    /\ IF TranslationUniqueViolation(workers[w].data.messageId, workers[w].data.toLang)
       THEN /\ JobFailed(w, "UniqueConstraint")
            /\ UNCHANGED translations
       ELSE /\ translations' = translations \cup
                   {[id |-> <<workers[w].jobId, w>>,
                     messageId |-> workers[w].data.messageId,
                     lang |-> workers[w].data.toLang,
                     content |-> workers[w].translatedContent]}
            /\ WorkerGoto(w, "w_emit")
    /\ UNCHANGED <<blocks, friendships, dmRequests, messages, procs, serial,
                   envVars, dispatch>>

\* io.to(`chat:${chatId}`).emit('message:translated', { chatId, ...data })
EmitTranslationEvent(chatId, data) ==
    events' = events \cup {[room |-> chatId, chatId |-> chatId,
                            messageId |-> data.messageId, lang |-> data.lang,
                            content |-> data.content]}

\* (variant: the event carries the text as it was written)
WorkerEmitOriginalContent(w) ==
    /\ workers[w].pc = "w_emit"
    /\ EmitTranslationEvent(workers[w].data.chatId,
                            [messageId |-> workers[w].data.messageId,
                             lang |-> workers[w].data.toLang,
                             content |-> workers[w].data.originalContent])
    /\ JobCompleted(w)
    /\ UNCHANGED <<blocks, friendships, dmRequests, messages, procs, serial,
                   chatMembers, prefs, queueUp, providerUp, pairCall, clock,
                   translations, dispatch>>
\* await emitTranslationEvent(chatId, { messageId, lang, content }) and the
\* return of the processor
WorkerEmit(w) ==
    /\ workers[w].pc = "w_emit"
    /\ EmitTranslationEvent(workers[w].data.chatId,
                            [messageId |-> workers[w].data.messageId,
                             lang |-> workers[w].data.toLang,
                             content |-> workers[w].translatedContent])
    /\ JobCompleted(w)
    /\ UNCHANGED <<blocks, friendships, dmRequests, messages, procs, serial,
                   chatMembers, prefs, queueUp, providerUp, pairCall, clock,
                   translations, dispatch>>

\* The lock of an active job expires while its execution is still running
\* (the queue delivers at least once): the job waits again, for another
\* execution, once.
WorkerStalled(w) ==
    /\ \E j \in queue :
           /\ j.state = "active"
           /\ j.lock = w
           /\ ~j.stalled
           /\ queue' = (queue \ {j}) \cup
                  {[j EXCEPT !.state = "waiting", !.lock = 0, !.stalled = TRUE]}
    /\ UNCHANGED <<blocks, friendships, dmRequests, messages, procs, serial,
                   envVars, translations, dispatch, workers>>

\* ---------------------------------------------------------------- specifications
\* A request for the DM-request flow arrives.
StartDm(p) ==
    \E userId \in Users, otherId \in Users :
        \/ SendMessageCall(p, userId, otherId)
        \/ AcceptDmRequestCall(p, userId, otherId)
        \/ DeclineDmRequestCall(p, userId, otherId)
        \/ BlockViaDmRequestCall(p, userId, otherId)

\* A direct call of the two exported DM-request helpers.
StartDmHelper(p) ==
    \E userId \in Users, otherId \in Users :
        \/ CreateOrUpdateDmRequestCall(p, userId, otherId)
        \/ AutoAcceptCall(p, userId, otherId)

\* A block or friendship request arrives.
StartRel(p) ==
    \E userId \in Users, otherId \in Users :
        \/ BlockUserCall(p, userId, otherId)
        \/ UnblockUserCall(p, userId, otherId)
        \/ RequestFriendshipCall(p, userId, otherId)
        \/ AcceptFriendshipCall(p, userId, otherId)
        \/ DeclineFriendshipCall(p, userId, otherId)
        \/ RemoveFriendshipCall(p, userId, otherId)

\* A request of the DM-request flow performs its next database call.
StepDm(p) ==
    \/ CanSendReceiverBlockedSender(p)
    \/ CanSendSenderBlockedReceiver(p)
    \/ CanSendFriendship(p)
    \/ SendMessageFindDmRequest(p)
    \/ SendMessageCreate(p)
    \/ SendMessageSenderPref(p)
    \/ SendMessageTargetLanguages(p)
    \/ SendMessageChatUpdate(p)
    \/ CreateOrUpdateFind(p)
    \/ CreateOrUpdateTouch(p)
    \/ CreateOrUpdatePending(p)
    \/ CreateOrUpdateCreate(p)
    \/ AutoAcceptFind(p)
    \/ AutoAcceptAccept(p)
    \/ AcceptDmRequestFind(p)
    \/ AcceptDmRequestUpdate(p)
    \/ DeclineDmRequestFind(p)
    \/ DeclineDmRequestUpdate(p)
    \/ BlockViaDmRequestFind(p)
    \/ BlockViaDmRequestUpdate(p)
    \/ BlockViaDmRequestUpsert(p)

\* The ACCEPTED branch of autoAcceptDmRequestOnReply: sendMessage calls the
\* function after reading a PENDING row, so the branch is reached only by a
\* direct call or when another request accepted the row in between.
StepDmRace(p) == AutoAcceptTouch(p)

\* The insert of autoAcceptDmRequestOnReply, reached only when it is called
\* directly for a pair without a row.
StepDmHelper(p) == AutoAcceptCreate(p)

\* A block or friendship request performs its next database call.
StepRel(p) ==
    \/ BlockUserFind(p)
    \/ BlockUserCreate(p)
    \/ BlockUserDeclinePending(p)
    \/ UnblockUserFind(p)
    \/ UnblockUserDelete(p)
    \/ RequestFriendshipFind(p)
    \/ RequestFriendshipBlockCheck(p)
    \/ RequestFriendshipCreate(p)
    \/ AcceptFriendshipFind(p)
    \/ AcceptFriendshipUpdate(p)
    \/ DeclineFriendshipFind(p)
    \/ DeclineFriendshipUpdate(p)
    \/ RemoveFriendshipFind(p)
    \/ RemoveFriendshipDelete(p)

\* Every service call, the direct calls of the exported helpers included.
Next ==
    \E p \in Procs :
        \/ StartDm(p)
        \/ StartDmHelper(p)
        \/ StartRel(p)
        \/ StepDm(p)
        \/ StepDmRace(p)
        \/ StepDmHelper(p)
        \/ StepRel(p)
        \/ Return(p)

Spec == Init /\ [][Next]_vars

\* Only the operations the request handlers expose.
NextApp ==
    \E p \in Procs :
        \/ StartDm(p)
        \/ StartRel(p)
        \/ StepDm(p)
        \/ StepRel(p)
        \/ Return(p)

SpecApp == Init /\ [][NextApp]_vars

\* The requests of the DM-request flow, overlapping: a request may arrive
\* while another is in flight, and their database calls interleave.
NextConc ==
    \E p \in Procs :
        \/ StartDm(p)
        \/ StepDm(p)
        \/ StepDmRace(p)
        \/ Return(p)

SpecConc == InitConc /\ [][NextConc]_vars

\* ---- the translation pipeline in the group chat
\* A preference row: the member's own language and the one they read in.
PrefRow(userId, myLanguage, viewLanguage) ==
    [chatId |-> GroupChat, userId |-> userId,
     myLanguage |-> myLanguage, viewLanguage |-> viewLanguage]

\* Requests served one at a time need one request slot.
SerialProcs == {1}

GroupOf(members) ==
    [c \in {DmChat, GroupChat} |-> IF c = DmChat THEN <<1, 2>> ELSE members]

\* A large group: one member per language code, the first n of them with a
\* preference row for their code, in the order findMany returns them or in
\* the opposite one.
LargeGroup == [i \in 1..Len(LangCodes) |-> i]
Reversed(seq) == [i \in 1..Len(seq) |-> seq[Len(seq) + 1 - i]]
PrefCounts == {0, 3, Len(LangCodes)}
LargeGroupSenders == {1, 2}

InitDispatch ==
    /\ InitPipeline
    /\ serial = TRUE
    /\ \E order \in {LargeGroup, Reversed(LargeGroup)} : chatMembers = GroupOf(order)
    /\ \E n \in PrefCounts :
           prefs = {PrefRow(i, LangCodes[i], LangCodes[i]) : i \in 1..n}
    /\ queueUp \in BOOLEAN
    /\ providerUp = TRUE
    /\ pairCall = NoPairCall
    /\ clock = 0
    /\ events = {}

StartDispatch(p) ==
    \E userId \in LargeGroupSenders : SendMessageGroupCall(p, userId)

StepSend(p) ==
    \/ SendMessageCreate(p)
    \/ SendMessageSenderPref(p)
    \/ SendMessageTargetLanguages(p)
    \/ SendMessageChatUpdate(p)

StepDispatch(messageId) ==
    \/ DispatchFindExisting(messageId)
    \/ DispatchAddTranslationJob(messageId)

\* sendMessage in the large group and its enqueueing; no worker is running.
NextDispatch ==
    \/ \E p \in SerialProcs : StartDispatch(p) \/ StepSend(p) \/ Return(p)
    \/ \E messageId \in 1..MaxGroupMessages : StepDispatch(messageId)

SpecDispatch == InitDispatch /\ [][NextDispatch]_vars

\* A small group: member 1 writes and reads Georgian, member 2 reads Spanish,
\* member 3 has set nothing; or only member 2 has, writing Spanish and
\* reading Georgian.
SmallGroup == <<1, 2, 3>>
SmallGroupPrefs ==
    {{PrefRow(1, "ka", "ka"), PrefRow(2, "es", "es")},
     {PrefRow(1, "ka", "ka"), PrefRow(2, "en", "es")},
     {PrefRow(2, "es", "ka")}}
DirectLangs == {"es"}

InitGroup ==
    /\ InitPipeline
    /\ serial = TRUE
    /\ chatMembers = GroupOf(SmallGroup)
    /\ prefs \in SmallGroupPrefs
    /\ queueUp = TRUE
    /\ providerUp = TRUE
    /\ pairCall = NoPairCall
    /\ clock = 0
    /\ events = {}

StartGroup(p) ==
    \/ \E userId \in Range(SmallGroup) : SendMessageGroupCall(p, userId)
    \/ \E userId \in Range(SmallGroup) : GetMessagesCall(p, userId)
    \/ \E messageId \in 1..MaxGroupMessages, toLang \in DirectLangs :
           AddTranslationJobCall(p, messageId, toLang)

StepGroup(p) ==
    \/ GetMessagesRequesterPref(p)
    \/ GetMessagesFind(p)
    \/ AddTranslationJobAdd(p)

StepWorker(w) ==
    \/ WorkerTake(w)
    \/ WorkerFindMessage(w)
    \/ WorkerFindExisting(w)
    \/ WorkerTranslate(w)
    \/ WorkerCreate(w)
    \/ WorkerEmit(w)

\* Sending to and reading from the small group, one request at a time, with
\* the enqueueing and the worker's executions running beside them.
NextGroup ==
    \/ \E p \in SerialProcs : StartGroup(p) \/ StepSend(p) \/ StepGroup(p) \/ Return(p)
    \/ \E messageId \in 1..MaxGroupMessages : StepDispatch(messageId)
    \/ \E w \in Workers : StepWorker(w)

SpecGroup == InitGroup /\ [][NextGroup]_vars

\* A group of two, member 2 reading Spanish: every message of member 1 has one
\* target language.  Messages are deleted and read, jobs are submitted again,
\* the provider may be down, and a job's lock may expire under its execution.
PairGroup == <<1, 2>>
PairGroupSenders == {1}
PairGroupReaders == {2}

InitWorker ==
    /\ InitPipeline
    /\ serial = TRUE
    /\ chatMembers = GroupOf(PairGroup)
    /\ prefs = {PrefRow(2, "es", "es")}
    /\ queueUp \in BOOLEAN
    /\ providerUp \in BOOLEAN
    /\ pairCall = NoPairCall
    /\ clock = 0
    /\ events = {}

StartWorker(p) ==
    \/ \E userId \in PairGroupSenders : SendMessageGroupCall(p, userId)
    \/ \E userId \in Range(PairGroup), messageId \in 1..MaxGroupMessages :
           DeleteMessageCall(p, userId, messageId)
    \/ \E userId \in PairGroupReaders : GetMessagesCall(p, userId)
    \/ \E messageId \in 1..MaxGroupMessages, toLang \in DirectLangs :
           AddTranslationJobCall(p, messageId, toLang)

StepDelete(p) ==
    \/ DeleteMessageFind(p)
    \/ DeleteMessageUpdate(p)
    \/ AddTranslationJobAdd(p)

StepRead(p) ==
    \/ GetMessagesRequesterPref(p)
    \/ GetMessagesFind(p)

NextWorker ==
    \/ \E p \in SerialProcs :
           StartWorker(p) \/ StepSend(p) \/ StepDelete(p) \/ StepRead(p) \/ Return(p)
    \/ \E messageId \in 1..MaxGroupMessages : StepDispatch(messageId)
    \/ \E w \in Workers : StepWorker(w) \/ WorkerStalled(w)

SpecWorker == InitWorker /\ [][NextWorker]_vars

\* The group of two again, where the sender also edits messages and changes
\* the language preference after sending.
StartRevise(p) ==
    \/ \E userId \in PairGroupSenders : SendMessageGroupCall(p, userId)
    \/ \E userId \in PairGroupReaders : GetMessagesCall(p, userId)
    \/ \E userId \in PairGroupSenders : SetLanguagePreferenceCall(p, userId)
    \/ \E userId \in Range(PairGroup), messageId \in 1..MaxGroupMessages :
           EditMessageCall(p, userId, messageId)

StepRevise(p) ==
    \/ SetLanguagePreferenceUpsert(p)
    \/ EditMessageFind(p)
    \/ EditMessageUpdate(p)

NextRevise ==
    \/ \E p \in SerialProcs :
           StartRevise(p) \/ StepSend(p) \/ StepRead(p) \/ StepRevise(p) \/ Return(p)
    \/ \E messageId \in 1..MaxGroupMessages : StepDispatch(messageId)
    \/ \E w \in Workers : StepWorker(w)

SpecRevise == InitWorker /\ [][NextRevise]_vars

\* ---- the DM-request flow from any relationship state
\* The values of the FriendshipStatus and DmRequestStatus enums.
RelationshipStatuses == {"PENDING", "ACCEPTED", "DECLINED", "BLOCKED"}

\* The tables hold any Block rows between the two users, and for their pair
\* no or one Friendship row and no or one DmRequest row, of any status and
\* requested or initiated by either user.
InitPermission ==
    /\ blocks \in SUBSET {[id |-> u, blockerId |-> u, blockedId |-> 3 - u] : u \in Users}
    /\ friendships \in {{}} \cup
           {{[id |-> 1, userAId |-> 1, userBId |-> 2, requestedById |-> u,
              status |-> st]} : u \in Users, st \in RelationshipStatuses}
    /\ dmRequests \in {{}} \cup
           {{[id |-> 1, userAId |-> 1, userBId |-> 2, initiatedById |-> u,
              status |-> st, lastMessageAt |-> 0]} :
                u \in Users, st \in RelationshipStatuses}
    /\ messages = <<>>
    /\ procs = [p \in Procs |-> IdleProc]
    /\ translations = {}
    /\ queue = {}
    /\ dispatch = {}
    /\ workers = [w \in Workers |-> IdleWorker]
    /\ chatMembers = GroupOf(<<>>)
    /\ prefs = {}
    /\ queueUp = TRUE
    /\ providerUp = TRUE
    /\ pairCall = NoPairCall
    /\ clock = 0
    /\ events = {}
    /\ serial = TRUE

\* Time passes.
Tick ==
    /\ clock < MaxClock
    /\ clock' = clock + 1
    /\ UNCHANGED <<blocks, friendships, dmRequests, messages, procs, serial,
                   chatMembers, prefs, queueUp, providerUp, pairCall, events,
                   trVars>>

NextPermission ==
    \/ \E p \in SerialProcs :
           \/ StartDm(p)
           \/ StepDm(p)
           \/ Return(p)
    \/ Tick

SpecPermission == InitPermission /\ [][NextPermission]_vars

\* ---- overlapping requests of a pair that has a DmRequest row
\* Neither user blocks the other and they have no Friendship; their
\* DmRequest row, if any, has any status and either initiator.
InitRace ==
    /\ blocks = {}
    /\ friendships = {}
    /\ dmRequests \in {{}} \cup
           {{[id |-> 1, userAId |-> 1, userBId |-> 2, initiatedById |-> u,
              status |-> st, lastMessageAt |-> 0]} :
                u \in Users, st \in RelationshipStatuses}
    /\ messages = <<>>
    /\ procs = [p \in Procs |-> IdleProc]
    /\ translations = {}
    /\ queue = {}
    /\ dispatch = {}
    /\ workers = [w \in Workers |-> IdleWorker]
    /\ chatMembers = GroupOf(<<>>)
    /\ prefs = {}
    /\ queueUp = TRUE
    /\ providerUp = TRUE
    /\ pairCall = NoPairCall
    /\ clock = 0
    /\ events = {}
    /\ serial = FALSE

SpecRace == InitRace /\ [][NextConc]_vars

\* ---- the two users next to a third
\* A user who has relationship rows with each of the two users and makes
\* no request.
ThirdUser == 3

OtherPairsBlocks ==
    {[id |-> 1, blockerId |-> ThirdUser, blockedId |-> 1],
     [id |-> 2, blockerId |-> 2, blockedId |-> ThirdUser]}

OtherPairsFriendships ==
    {[id |-> 1, userAId |-> 1, userBId |-> ThirdUser, requestedById |-> ThirdUser,
      status |-> "PENDING"],
     [id |-> 2, userAId |-> 2, userBId |-> ThirdUser, requestedById |-> 2,
      status |-> "ACCEPTED"]}

OtherPairsDmRequests ==
    {[id |-> 1, userAId |-> 1, userBId |-> ThirdUser, initiatedById |-> 1,
      status |-> "PENDING", lastMessageAt |-> 0],
     [id |-> 2, userAId |-> 2, userBId |-> ThirdUser, initiatedById |-> ThirdUser,
      status |-> "DECLINED", lastMessageAt |-> 0]}

InitFrame ==
    /\ blocks = OtherPairsBlocks
    /\ friendships = OtherPairsFriendships
    /\ dmRequests = OtherPairsDmRequests
    /\ messages = <<>>
    /\ procs = [p \in Procs |-> IdleProc]
    /\ translations = {}
    /\ queue = {}
    /\ dispatch = {}
    /\ workers = [w \in Workers |-> IdleWorker]
    /\ chatMembers = GroupOf(<<>>)
    /\ prefs = {}
    /\ queueUp = TRUE
    /\ providerUp = TRUE
    /\ pairCall = NoPairCall
    /\ clock = 0
    /\ events = {}
    /\ serial = TRUE

SpecFrame == InitFrame /\ [][Next]_vars

\* ---- normalizeUserPair on its own
\* Any two user ids, equal or not; ids are compared as their strings are.
PairIds == 1..MaxPairId

InitPairs ==
    /\ InitPipeline
    /\ serial = TRUE
    /\ chatMembers = GroupOf(<<>>)
    /\ prefs = {}
    /\ queueUp = TRUE
    /\ providerUp = TRUE
    /\ \E userId1 \in PairIds, userId2 \in PairIds :
           pairCall = [userId1 |-> userId1, userId2 |-> userId2,
                       out |-> {}, swapped |-> {}]
    /\ clock = 0
    /\ events = {}

\* normalizeUserPair(userId1, userId2)
NormalizeUserPairCall ==
    /\ pairCall.out = {}
    /\ pairCall' = [pairCall EXCEPT
                       !.out = {NormalizeUserPair(pairCall.userId1, pairCall.userId2)}]
    /\ UNCHANGED <<blocks, friendships, dmRequests, messages, procs, serial,
                   chatMembers, prefs, queueUp, providerUp, clock, events, trVars>>

\* normalizeUserPair(userId2, userId1)
NormalizeUserPairSwappedCall ==
    /\ pairCall.swapped = {}
    /\ pairCall' = [pairCall EXCEPT
                       !.swapped = {NormalizeUserPair(pairCall.userId2, pairCall.userId1)}]
    /\ UNCHANGED <<blocks, friendships, dmRequests, messages, procs, serial,
                   chatMembers, prefs, queueUp, providerUp, clock, events, trVars>>

NextPairs ==
    \/ NormalizeUserPairCall
    \/ NormalizeUserPairSwappedCall

SpecPairs == InitPairs /\ [][NextPairs]_vars

\* ---------------------------------------------------------------- properties
\* Rows of a table (current or remembered) that belong to the pair {u1, u2}.
BlocksBetween(tbl, u1, u2) ==
    {b \in tbl : \/ b.blockerId = u1 /\ b.blockedId = u2
                 \/ b.blockerId = u2 /\ b.blockedId = u1}

RowsOfPair(tbl, u1, u2) ==
    {r \in tbl : /\ r.userAId = NormalizeUserPair(u1, u2).userAId
                 /\ r.userBId = NormalizeUserPair(u1, u2).userBId}

AcceptedFriends(tbl, u1, u2) ==
    \E f \in RowsOfPair(tbl, u1, u2) : f.status = "ACCEPTED"

Done(p, op) == procs[p].pc = "done" /\ procs[p].op = op

\* The request arrived when the pair had no Block row and no ACCEPTED
\* Friendship, so its send goes through the DM-request step.
Unacquainted(p) ==
    /\ BlocksBetween(procs[p].pre.blocks, procs[p].userId, procs[p].otherId) = {}
    /\ ~AcceptedFriends(procs[p].pre.friendships, procs[p].userId, procs[p].otherId)

\* The request's message row exists and names the caller as sender.
Persisted(p) ==
    /\ procs[p].msg \in DOMAIN messages
    /\ messages[procs[p].msg].senderId = procs[p].userId

\* C1: a Block row in either direction between two users makes canSendMessage
\* deny both directions, whatever their Friendship; with no Block row in
\* either direction canSendMessage allows both directions.
C1_BlockVetoesBothDirections ==
    \A a \in Users, b \in Users :
        a # b =>
            IF BlocksBetween(blocks, a, b) # {}
            THEN ~CanSendMessage(a, b).allowed /\ ~CanSendMessage(b, a).allowed
            ELSE CanSendMessage(a, b).allowed /\ CanSendMessage(b, a).allowed

\* One user has blocked the other while the two are ACCEPTED friends.
C1_Witness ==
    \E a \in Users, b \in Users :
        /\ FindBlock(a, b) # {}
        /\ FindBlock(b, a) = {}
        /\ AcceptedFriends(friendships, a, b)

\* C2: a first message between two users with no Block row, no ACCEPTED
\* Friendship and no DmRequest row succeeds, is persisted, and leaves exactly
\* one DmRequest row for the pair, PENDING and initiated by the sender.
C2_FirstMessageCreatesPendingRequest ==
    \A p \in Procs :
        ( /\ Done(p, "sendMessage")
          /\ Unacquainted(p)
          /\ RowsOfPair(procs[p].pre.dmRequests, procs[p].userId, procs[p].otherId) = {} )
        => /\ procs[p].res = "ok"
           /\ Persisted(p)
           /\ Cardinality(FindDmRequest(procs[p].userId, procs[p].otherId)) = 1
           /\ \A r \in FindDmRequest(procs[p].userId, procs[p].otherId) :
                  r.status = "PENDING" /\ r.initiatedById = procs[p].userId

C2_Witness ==
    \E p \in Procs :
        /\ Done(p, "sendMessage")
        /\ Unacquainted(p)
        /\ RowsOfPair(procs[p].pre.dmRequests, procs[p].userId, procs[p].otherId) = {}
        /\ procs[p].res = "ok"

\* The request is a send by the user who did not initiate the pair's PENDING
\* DmRequest.
ReplyToPending(p) ==
    /\ Done(p, "sendMessage")
    /\ \E r \in RowsOfPair(procs[p].pre.dmRequests, procs[p].userId, procs[p].otherId) :
           r.status = "PENDING" /\ r.initiatedById = procs[p].otherId

AcceptedAndPersisted(p) ==
    /\ procs[p].res = "ok"
    /\ Persisted(p)
    /\ \A r \in FindDmRequest(procs[p].userId, procs[p].otherId) :
           r.status = "ACCEPTED"

\* C3 as stated, for the sends that are not rejected: whenever the receiver
\* of a PENDING DmRequest sends, the request is ACCEPTED afterwards and the
\* message is persisted.
C3_Original ==
    \A p \in Procs :
        (ReplyToPending(p) /\ procs[p].res = "ok") => AcceptedAndPersisted(p)

\* C3: when the receiver of a PENDING DmRequest sends while the pair has no
\* Block row and no ACCEPTED Friendship, the request is ACCEPTED afterwards,
\* with no acceptDmRequest call, and the message is persisted.
C3_ReplyAutoAccepts ==
    \A p \in Procs : (ReplyToPending(p) /\ Unacquainted(p)) => AcceptedAndPersisted(p)

C3_Witness ==
    \E p \in Procs : ReplyToPending(p) /\ Unacquainted(p) /\ procs[p].res = "ok"

\* The request is a send by the initiator of the pair's DECLINED DmRequest.
InitiatorSendsAfterDecline(p) ==
    /\ Done(p, "sendMessage")
    /\ \E r \in RowsOfPair(procs[p].pre.dmRequests, procs[p].userId, procs[p].otherId) :
           r.status = "DECLINED" /\ r.initiatedById = procs[p].userId

PendingByCaller(p) ==
    \A r \in FindDmRequest(procs[p].userId, procs[p].otherId) :
        r.status = "PENDING" /\ r.initiatedById = procs[p].userId

\* C4 as stated, for the sends that are not rejected: whenever the initiator
\* of a DECLINED DmRequest sends again, the request is PENDING afterwards with
\* the same initiator.
C4_Original ==
    \A p \in Procs :
        (InitiatorSendsAfterDecline(p) /\ procs[p].res = "ok") => PendingByCaller(p)

\* C4: when the initiator of a DECLINED DmRequest sends again while the pair
\* has no Block row and no ACCEPTED Friendship, the request is PENDING
\* afterwards and initiatedBy is still the initiator.
C4_DeclinedResetsToPending ==
    \A p \in Procs :
        (InitiatorSendsAfterDecline(p) /\ Unacquainted(p)) => PendingByCaller(p)

C4_Witness ==
    \E p \in Procs :
        InitiatorSendsAfterDecline(p) /\ Unacquainted(p) /\ procs[p].res = "ok"

\* C5: a DmRequest whose status is BLOCKED keeps that status in every step.
C5_BlockedIsTerminal ==
    [][\A r \in dmRequests :
           r.status = "BLOCKED" =>
               \A r2 \in dmRequests' : r2.id = r.id => r2.status = "BLOCKED"]_vars

\* C6: no message row is created between two users while their DmRequest has
\* status BLOCKED.
C6_NoMessageWhileBlocked ==
    [][\A p \in Procs :
           ( /\ procs[p].pc = "sm_create"
             /\ \E r \in FindDmRequest(procs[p].userId, procs[p].otherId) :
                    r.status = "BLOCKED" )
           => (procs'[p].pc = "sm_create" /\ messages' = messages)]_vars

\* The request is a blockViaDmRequest by the user who did not initiate the
\* pair's existing DmRequest.
BlockByReceiver(p) ==
    /\ Done(p, "blockViaDmRequest")
    /\ \E r \in RowsOfPair(procs[p].pre.dmRequests, procs[p].userId, procs[p].otherId) :
           r.initiatedById # procs[p].userId

\* C7: blockViaDmRequest by the non-initiator of an existing DmRequest, in any
\* status, succeeds and ends with the DmRequest BLOCKED and a Block row from
\* the caller to the other user; a Block row that already existed is kept.
C7_BlockViaRequest ==
    \A p \in Procs :
        BlockByReceiver(p) =>
            /\ procs[p].res = "ok"
            /\ \A r \in FindDmRequest(procs[p].userId, procs[p].otherId) :
                   r.status = "BLOCKED"
            /\ Cardinality(FindBlock(procs[p].userId, procs[p].otherId)) = 1
            /\ \A b \in procs[p].pre.blocks :
                   (b.blockerId = procs[p].userId /\ b.blockedId = procs[p].otherId)
                       => b \in blocks

\* The caller had already blocked the other user, whose request was not
\* PENDING any more.
C7_Witness ==
    \E p \in Procs :
        /\ BlockByReceiver(p)
        /\ \E b \in procs[p].pre.blocks :
               b.blockerId = procs[p].userId /\ b.blockedId = procs[p].otherId
        /\ \E r \in procs[p].pre.dmRequests : r.status = "ACCEPTED"
        /\ procs[p].res = "ok"

\* C8: under every interleaving of sends and request-management calls there is
\* at most one DmRequest row per normalized pair.
C8_OneRequestPerPair ==
    \A a \in Users, b \in Users :
        a # b => Cardinality(FindDmRequest(a, b)) <= 1

\* Two creations raced: one inserted the row, the other was rejected.
C8_Witness ==
    /\ \E p \in Procs : procs[p].res = "UniqueConstraint"
    /\ \E a \in Users, b \in Users :
           a # b /\ Cardinality(FindDmRequest(a, b)) = 1

\* No step changes the initiatedById of an existing DmRequest row.
InitiatedByKept ==
    \A r \in dmRequests :
        \A r2 \in dmRequests' : r2.id = r.id => r2.initiatedById = r.initiatedById

\* The request is a send by the user who did not initiate the pair's DECLINED
\* DmRequest.
OtherSendsAfterDecline(p) ==
    /\ Done(p, "sendMessage")
    /\ \E r \in RowsOfPair(procs[p].pre.dmRequests, procs[p].userId, procs[p].otherId) :
           r.status = "DECLINED" /\ r.initiatedById = procs[p].otherId

PendingByOther(p) ==
    \A r \in FindDmRequest(procs[p].userId, procs[p].otherId) :
        r.status = "PENDING" /\ r.initiatedById = procs[p].otherId

\* C9 as stated, for the sends that are not rejected: initiatedBy never
\* changes, and whenever the non-initiator of a DECLINED DmRequest sends, the
\* request is PENDING afterwards with the original initiator.
C9_Original ==
    /\ [][InitiatedByKept]_vars
    /\ [](\A p \in Procs :
              (OtherSendsAfterDecline(p) /\ procs[p].res = "ok") => PendingByOther(p))

\* C9: initiatedBy of a DmRequest row never changes; when the non-initiator of
\* a DECLINED DmRequest sends while the pair has no Block row and no ACCEPTED
\* Friendship, the request is PENDING afterwards and initiatedBy still names
\* the original initiator.
C9_InitiatedByImmutable ==
    /\ [][InitiatedByKept]_vars
    /\ [](\A p \in Procs :
              (OtherSendsAfterDecline(p) /\ Unacquainted(p)) => PendingByOther(p))

C9_Witness ==
    \E p \in Procs :
        OtherSendsAfterDecline(p) /\ Unacquainted(p) /\ procs[p].res = "ok"

\* C10: a createOrUpdateDmRequest that loses the race for the first insert
\* does not fail: no send ends with the unique-constraint error.
C10_RacingCreateDoesNotFail ==
    \A p \in Procs :
        procs[p].op = "sendMessage" => procs[p].res # "UniqueConstraint"

\* ---------------------------------------------------------------- translation pipeline
\* The language a member reads in and the one they write in, "en" without a
\* preference row.
ViewLanguageOf(userId, chatId) ==
    IF \E r \in prefs : r.chatId = chatId /\ r.userId = userId
    THEN (CHOOSE r \in prefs : r.chatId = chatId /\ r.userId = userId).viewLanguage
    ELSE "en"

MyLanguageOf(userId, chatId) ==
    IF \E r \in prefs : r.chatId = chatId /\ r.userId = userId
    THEN (CHOOSE r \in prefs : r.chatId = chatId /\ r.userId = userId).myLanguage
    ELSE "en"

\* The view language of each member in the order of enumeration, and the
\* positions at which a language is met for the first time.
ViewLanguagesInOrder(chatId) ==
    [i \in 1..Len(chatMembers[chatId]) |->
        ViewLanguageOf(chatMembers[chatId][i], chatId)]

ViewLanguagesOf(chatId) ==
    {ViewLanguagesInOrder(chatId)[i] : i \in 1..Len(chatMembers[chatId])}

FirstMet(view) ==
    {i \in 1..Len(view) : \A k \in 1..(i - 1) : view[k] # view[i]}

\* The first ten distinct view languages in that order.
FirstTenViewLanguages(chatId) ==
    LET view == ViewLanguagesInOrder(chatId)
        first == FirstMet(view)
    IN  {view[i] : i \in {i \in first : Cardinality({k \in first : k < i}) < 10}}

\* The languages a message is to be translated into.
ExpectedTargets(d) ==
    FirstTenViewLanguages(d.chatId)
        \ {MyLanguageOf(messages[d.messageId].senderId, d.chatId)}

EnqueueingOver(d) == d.todo = <<>>

JobsOfMessage(messageId) == {j \in queue : j.data.messageId = messageId}

\* C12: for every message, addTranslationJob is called for at most 10 target
\* languages and the queue holds at most 10 jobs for it, however many members
\* and view languages the chat has.
C12_AtMostTenJobs ==
    \A d \in dispatch :
        /\ Cardinality(d.sent) <= 10
        /\ Cardinality(JobsOfMessage(d.messageId)) <= 10

\* More than ten view languages in the chat, ten jobs for the message.
C12_Witness ==
    \E d \in dispatch :
        /\ EnqueueingOver(d)
        /\ Cardinality(ViewLanguagesOf(d.chatId)) > 10
        /\ Cardinality(d.sent) = 10
        /\ Cardinality(JobsOfMessage(d.messageId)) = 10

\* C13: every job is keyed translation:<messageId>:<toLang>, and the queue
\* never holds two jobs for the same (messageId, toLang), however often one is
\* submitted.
C13_OneJobPerKey ==
    /\ \A j \in queue : j.id = <<"translation", j.data.messageId, j.data.toLang>>
    /\ \A j1, j2 \in queue :
           (j1.data.messageId = j2.data.messageId /\ j1.data.toLang = j2.data.toLang)
               => j1 = j2

\* sendMessage and a direct call have both submitted the same (messageId,
\* toLang): one job.
C13_Witness ==
    \E p \in Procs, d \in dispatch :
        /\ Done(p, "addTranslationJob")
        /\ procs[p].res = "ok"
        /\ d.messageId = procs[p].msg
        /\ procs[p].lang \in d.sent
        /\ Cardinality({j \in JobsOfMessage(d.messageId) :
                           j.data.toLang = procs[p].lang}) = 1

\* C14: message_translations never holds two rows for one (messageId, lang),
\* and a job that has completed leaves exactly one row for its key.
C14_OneTranslationPerKey ==
    /\ \A t1, t2 \in translations :
           (t1.messageId = t2.messageId /\ t1.lang = t2.lang) => t1 = t2
    /\ \A j \in queue :
           j.state = "completed"
               => Cardinality(FindTranslation(j.data.messageId, j.data.toLang)) = 1

\* Two executions of one job raced on the insert, the job has completed since:
\* one row.
C14_Witness ==
    \E j \in queue :
        /\ j.state = "completed"
        /\ j.stalled
        /\ j.failedReason = "UniqueConstraint"
        /\ Cardinality(FindTranslation(j.data.messageId, j.data.toLang)) = 1

\* C15: a sendMessage that has stored its message returns it, whatever
\* happened to the enqueueing of its translation jobs and to the jobs
\* themselves; the message row stays.
C15_SendSurvivesTranslationFailure ==
    /\ \A p \in Procs :
           (Done(p, "sendMessage") /\ procs[p].chatId = GroupChat)
               => /\ procs[p].res = "ok"
                  /\ procs[p].msg \in 1..Len(messages)
                  /\ messages[procs[p].msg].senderId = procs[p].userId
    /\ \A j \in queue :
           j.state = "failed" => j.data.messageId \in 1..Len(messages)

\* The queue was unreachable for every job of the message, and the send
\* returned.
C15_Witness ==
    \E p \in Procs, d \in dispatch :
        /\ Done(p, "sendMessage")
        /\ procs[p].res = "ok"
        /\ d.messageId = procs[p].msg
        /\ EnqueueingOver(d)
        /\ d.sent # {}
        /\ d.error
        /\ JobsOfMessage(d.messageId) = {}

\* ---------------------------------------------------------------- getMessages
\* getMessages hands its page to the caller.
GetMessagesReturns(p) == procs[p].pc = "gm_find" /\ procs'[p].pc = "done"

ReaderLanguage(p) == ViewLanguageOf(procs[p].userId, procs[p].chatId)

SenderLanguage(id) == MyLanguageOf(messages[id].senderId, messages[id].chatId)

Entries(page) == {page[k] : k \in 1..Len(page)}

ShownAsWritten(e) ==
    /\ e.content = messages[e.id].content
    /\ e.langShown = e.langOriginal
    /\ "contentOriginal" \notin DOMAIN e

\* C16: a message whose sender writes in the language the reader reads in is
\* returned as written, langShown = langOriginal and no contentOriginal,
\* whatever translations are stored for it.
C16_SameLanguageIsOriginal ==
    [][\A p \in Procs :
          GetMessagesReturns(p) =>
              \A e \in Entries(procs'[p].page) :
                  ReaderLanguage(p) = SenderLanguage(e.id) => ShownAsWritten(e)]_vars

\* Such a message has been returned while a translation into that very
\* language was stored.
C16_Witness ==
    \E p \in Procs :
        /\ Done(p, "getMessages")
        /\ \E e \in Entries(procs[p].page) :
               /\ ReaderLanguage(p) = SenderLanguage(e.id)
               /\ FindTranslation(e.id, ReaderLanguage(p)) # {}
               /\ ShownAsWritten(e)

\* C17: a message written in another language than the reader's, with no
\* translation stored for the reader's language, is returned as written,
\* langShown = langOriginal and no contentOriginal, and getMessages succeeds.
C17_MissingTranslationFallsBack ==
    [][\A p \in Procs :
          GetMessagesReturns(p) =>
              /\ procs'[p].res = "ok"
              /\ \A e \in Entries(procs'[p].page) :
                     ( /\ ReaderLanguage(p) # SenderLanguage(e.id)
                       /\ FindTranslation(e.id, ReaderLanguage(p)) = {} )
                         => ShownAsWritten(e)]_vars

C17_Witness ==
    \E p \in Procs :
        /\ Done(p, "getMessages")
        /\ procs[p].res = "ok"
        /\ \E e \in Entries(procs[p].page) :
               /\ ReaderLanguage(p) # SenderLanguage(e.id)
               /\ FindTranslation(e.id, ReaderLanguage(p)) = {}
               /\ ShownAsWritten(e)

\* C18: a message written in another language than the reader's, with a
\* translation stored for the reader's language, is returned with the stored
\* translation as content, the text as written as contentOriginal, the
\* sender's language as langOriginal and the reader's as langShown.
C18_StoredTranslationIsShown ==
    [][\A p \in Procs :
          GetMessagesReturns(p) =>
              \A e \in Entries(procs'[p].page) :
                  \A t \in FindTranslation(e.id, ReaderLanguage(p)) :
                      ReaderLanguage(p) # SenderLanguage(e.id)
                          => /\ e.content = t.content
                             /\ "contentOriginal" \in DOMAIN e
                             /\ e.contentOriginal = messages[e.id].content
                             /\ e.langOriginal = SenderLanguage(e.id)
                             /\ e.langShown = ReaderLanguage(p)]_vars

C18_Witness ==
    \E p \in Procs :
        /\ Done(p, "getMessages")
        /\ \E e \in Entries(procs[p].page) :
               /\ "contentOriginal" \in DOMAIN e
               /\ e.content # e.contentOriginal
               /\ e.langShown = ReaderLanguage(p)
               /\ e.langShown # e.langOriginal

\* ---------------------------------------------------------------- translation worker
\* C19: a job whose execution found the message missing or soft-deleted is
\* failed for good: it does not wait for, or run, another attempt.
C19_DeletedMessageFailsForGood ==
    \A j \in queue : j.failedReason = "MessageGone" => j.state = "failed"

\* C20: an execution whose insert the unique index rejects ends as a
\* success: the rejection is never recorded as the failure of a job attempt.
C20_RejectedInsertIsNoOp ==
    \A j \in queue : j.failedReason # "UniqueConstraint"

\* C21: a translate call that fails is retried while attempts are left, a job
\* is given at most TRANSLATION_MAX_RETRIES attempts, and a job whose attempts
\* all failed at the provider is abandoned: it is failed after exactly that
\* many attempts, it stays as it is and is never handed to an execution again,
\* no translation of its message into its language is stored, and a reader of
\* that language is given the message as written.
AbandonedJobs ==
    {j \in queue : j.state = "failed" /\ j.failedReason = "ProviderError"}

C21_FailedTranslationIsAbandoned ==
    /\ [](\A j \in queue :
             /\ j.attemptsMade <= TRANSLATION_MAX_RETRIES
             /\ (j.failedReason = "ProviderError"
                    /\ j.attemptsMade < TRANSLATION_MAX_RETRIES)
                  => j.state \in {"waiting", "active"}
             /\ j \in AbandonedJobs
                  => /\ j.attemptsMade = TRANSLATION_MAX_RETRIES
                     /\ FindTranslation(j.data.messageId, j.data.toLang) = {})
    /\ [][/\ \A j \in queue : j.state = "failed" => j \in queue'
          /\ \A p \in Procs :
                 GetMessagesReturns(p) =>
                     \A e \in Entries(procs'[p].page) :
                         (\E j \in AbandonedJobs :
                              /\ j.data.messageId = e.id
                              /\ j.data.toLang = ReaderLanguage(p))
                           => ShownAsWritten(e)]_vars

\* The provider is down: the job has used up its attempts, and the reader of
\* its language has been given the message as written.
C21_Witness ==
    \E p \in Procs, j \in AbandonedJobs :
        /\ Done(p, "getMessages")
        /\ j.attemptsMade = TRANSLATION_MAX_RETRIES
        /\ j.data.toLang = ReaderLanguage(p)
        /\ \E e \in Entries(procs[p].page) :
               e.id = j.data.messageId /\ ShownAsWritten(e)

\* ---------------------------------------------------------------- normalizeUserPair
\* C22: for different ids, normalizeUserPair gives the same pair for both
\* orders of its arguments, the smaller id as userAId, the larger as userBId,
\* and the two ids are the arguments; for equal ids it throws.
C22_NormalizedPairIsOrderFree ==
    \A r \in pairCall.out \cup pairCall.swapped :
        IF pairCall.userId1 = pairCall.userId2
        THEN r = [error |-> "Error"]
        ELSE /\ DOMAIN r = {"userAId", "userBId"}
             /\ r.userAId < r.userBId
             /\ {r.userAId, r.userBId} = {pairCall.userId1, pairCall.userId2}
             /\ \A other \in pairCall.out \cup pairCall.swapped : other = r

\* Called both ways with the larger id first.
C22_Witness ==
    /\ pairCall.userId1 > pairCall.userId2
    /\ pairCall.out # {}
    /\ pairCall.swapped = pairCall.out

\* ---------------------------------------------------------------- friendships
\* The request found the pair's Friendship row with this status when it
\* arrived.
FriendshipWas(p, status) ==
    \E f \in RowsOfPair(procs[p].pre.friendships, procs[p].userId, procs[p].otherId) :
        f.status = status

NoBlockBefore(p) ==
    BlocksBetween(procs[p].pre.blocks, procs[p].userId, procs[p].otherId) = {}

\* C23: a requestFriendship by either user of a pair whose Friendship is
\* DECLINED, with no Block row between them, succeeds and leaves the pair's
\* one Friendship row PENDING.
C23_DeclinedFriendshipIsSuperseded ==
    \A p \in Procs :
        ( /\ Done(p, "requestFriendship")
          /\ FriendshipWas(p, "DECLINED")
          /\ NoBlockBefore(p) )
        => /\ procs[p].res = "ok"
           /\ Cardinality(FindFriendship(procs[p].userId, procs[p].otherId)) = 1
           /\ \A f \in FindFriendship(procs[p].userId, procs[p].otherId) :
                  f.status = "PENDING"

\* The request that performs the step.
StepBy(p) == procs'[p] # procs[p]

\* The step moves the PENDING Friendship f to the status of f2.
LeavesPending(f, f2) ==
    /\ f.status = "PENDING"
    /\ f2.id = f.id
    /\ f2.status # "PENDING"

\* C24 as stated: a PENDING Friendship changes its status, to ACCEPTED or
\* DECLINED, only in a step of a request of the user who did not request it.
C24_Original ==
    [][\A f \in friendships, f2 \in friendships' :
           LeavesPending(f, f2) =>
               /\ f2.status \in {"ACCEPTED", "DECLINED"}
               /\ \A p \in Procs : StepBy(p) => procs[p].userId # f.requestedById]_vars

\* C24: a PENDING Friendship becomes ACCEPTED only by an acceptFriendship of
\* the user who did not request it, and DECLINED only by a declineFriendship
\* of that user or by a blockUser of either user; no acceptFriendship,
\* declineFriendship or requestFriendship of the requester changes its status.
C24_PendingLeftByAddresseeOrBlock ==
    [][\A f \in friendships, f2 \in friendships' :
           LeavesPending(f, f2) =>
               \A p \in Procs :
                   StepBy(p) =>
                       \/ /\ procs[p].op = "acceptFriendship"
                          /\ procs[p].userId # f.requestedById
                          /\ f2.status = "ACCEPTED"
                       \/ /\ procs[p].op = "declineFriendship"
                          /\ procs[p].userId # f.requestedById
                          /\ f2.status = "DECLINED"
                       \/ /\ procs[p].op = "blockUser"
                          /\ f2.status = "DECLINED"]_vars

\* The requester has blocked the other user while the request was PENDING,
\* and the Friendship is DECLINED.
C24_Witness ==
    \E p \in Procs :
        /\ Done(p, "blockUser")
        /\ procs[p].res = "ok"
        /\ \E f \in RowsOfPair(procs[p].pre.friendships, procs[p].userId, procs[p].otherId) :
               /\ f.status = "PENDING"
               /\ f.requestedById = procs[p].userId
               /\ \E f2 \in friendships : f2.id = f.id /\ f2.status = "DECLINED"

\* C25: removeFriendship on a Friendship that is PENDING or DECLINED fails and
\* leaves the row as it was; only an ACCEPTED Friendship is deleted by it.
C25_RemoveNeedsAccepted ==
    \A p \in Procs :
        ( /\ Done(p, "removeFriendship")
          /\ FriendshipWas(p, "PENDING") \/ FriendshipWas(p, "DECLINED") )
        => /\ procs[p].res # "ok"
           /\ RowsOfPair(procs[p].pre.friendships, procs[p].userId, procs[p].otherId)
                  \subseteq friendships

\* ---------------------------------------------------------------- canSendMessage
\* C26: with no Block row between two users, canSendMessage allows the send,
\* without a DM request exactly when their Friendship is ACCEPTED and with one
\* when the Friendship is absent, PENDING, DECLINED or BLOCKED, whatever the
\* pair's DmRequest is; and sendMessage goes on accordingly, to the creation of
\* the message or to the DM-request step.
C26_FriendshipAloneDecides ==
    /\ [](\A a \in Users, b \in Users :
              (a # b /\ BlocksBetween(blocks, a, b) = {}) =>
                  CanSendMessage(a, b) =
                      [allowed |-> TRUE,
                       requiresDmRequest |-> ~AcceptedFriends(friendships, a, b)])
    /\ [][\A p \in Procs :
              (procs[p].pc = "sm_perm3" /\ StepBy(p)) =>
                  procs'[p].pc =
                      IF AcceptedFriends(friendships, procs[p].userId, procs[p].otherId)
                      THEN "sm_create" ELSE "sm_find"]_vars

\* A send between two users whose Friendship is BLOCKED and whose DmRequest is
\* ACCEPTED has been allowed and is at the DM-request step.
C26_Witness ==
    \E p \in Procs :
        /\ procs[p].op = "sendMessage"
        /\ procs[p].pc = "sm_find"
        /\ \E f \in FindFriendship(procs[p].userId, procs[p].otherId) :
               f.status = "BLOCKED"
        /\ \E r \in FindDmRequest(procs[p].userId, procs[p].otherId) :
               r.status = "ACCEPTED"

\* ---------------------------------------------------------------- dm_requests
\* The request found the pair's DmRequest row PENDING and initiated by this
\* user when it arrived.
DmRequestWasPendingBy(p, userId) ==
    \E r \in RowsOfPair(procs[p].pre.dmRequests, procs[p].userId, procs[p].otherId) :
        r.status = "PENDING" /\ r.initiatedById = userId

\* C27: a PENDING DmRequest becomes ACCEPTED only in a step of a request made
\* by the user who did not initiate it: no send, acceptDmRequest,
\* declineDmRequest or other call of the initiator accepts it, and a send of
\* the initiator that succeeds leaves it PENDING.
C27_InitiatorCannotAccept ==
    /\ [][\A r \in dmRequests, r2 \in dmRequests' :
              (r.status = "PENDING" /\ r2.id = r.id /\ r2.status = "ACCEPTED") =>
                  \A p \in Procs : StepBy(p) => procs[p].userId # r.initiatedById]_vars
    /\ [](\A p \in Procs :
              ( /\ Done(p, "sendMessage")
                /\ procs[p].res = "ok"
                /\ Unacquainted(p)
                /\ DmRequestWasPendingBy(p, procs[p].userId) )
              => PendingByCaller(p))

\* The initiator has sent a second message while the request was PENDING.
C27_Witness ==
    \E p \in Procs :
        /\ Done(p, "sendMessage")
        /\ procs[p].res = "ok"
        /\ Unacquainted(p)
        /\ DmRequestWasPendingBy(p, procs[p].userId)
        /\ Len(messages) = 2
        /\ \A i \in 1..2 : messages[i].senderId = procs[p].userId

\* The pair's DmRequest rows as the request found them.
DmRequestsBefore(p) ==
    RowsOfPair(procs[p].pre.dmRequests, procs[p].userId, procs[p].otherId)

\* acceptDmRequest may accept: the row exists, is PENDING and was initiated
\* by the other user.
Acceptable(p) ==
    \E r \in DmRequestsBefore(p) :
        r.status = "PENDING" /\ r.initiatedById # procs[p].userId

\* C28: acceptDmRequest succeeds and leaves the DmRequest ACCEPTED when the
\* row exists, is PENDING and the caller did not initiate it; otherwise it
\* fails, with NotFound without a row, Forbidden for the initiator and
\* Conflict for another status, and leaves the DmRequest rows and the Block
\* rows as they were.
C28_AcceptDmRequest ==
    \A p \in Procs :
        Done(p, "acceptDmRequest") =>
            IF Acceptable(p)
            THEN /\ procs[p].res = "ok"
                 /\ dmRequests = {IF r \in DmRequestsBefore(p)
                                  THEN [r EXCEPT !.status = "ACCEPTED"] ELSE r :
                                  r \in procs[p].pre.dmRequests}
                 /\ blocks = procs[p].pre.blocks
            ELSE /\ procs[p].res =
                        IF DmRequestsBefore(p) = {} THEN "NotFound"
                        ELSE IF \E r \in DmRequestsBefore(p) :
                                    r.initiatedById = procs[p].userId
                             THEN "Forbidden"
                             ELSE "Conflict"
                 /\ dmRequests = procs[p].pre.dmRequests
                 /\ blocks = procs[p].pre.blocks

\* The receiver has accepted a PENDING request.
C28_Witness ==
    \E p \in Procs :
        /\ Done(p, "acceptDmRequest")
        /\ Acceptable(p)
        /\ procs[p].res = "ok"
        /\ \A r \in FindDmRequest(procs[p].userId, procs[p].otherId) :
               r.status = "ACCEPTED"

\* A sendMessage that succeeded between users whose DmRequest row existed
\* when the request arrived.
SentWithDmRequest(p) ==
    /\ Done(p, "sendMessage")
    /\ procs[p].res = "ok"
    /\ DmRequestsBefore(p) # {}

\* The pair's DmRequest row carries a time of the send: one not before the
\* request arrived.
RefreshedBySend(p) ==
    \A r \in FindDmRequest(procs[p].userId, procs[p].otherId) :
        r.lastMessageAt >= procs[p].pre.clock /\ r.lastMessageAt <= clock

\* lastMessageAt of a DmRequest row never decreases.
LastMessageAtGrows ==
    [][\A r \in dmRequests, r2 \in dmRequests' :
           r2.id = r.id => r2.lastMessageAt >= r.lastMessageAt]_vars

InitiatorWritesAfterReply(a, b, r) ==
    /\ a # b
    /\ procs[a].op = "sendMessage"
    /\ procs[a].pc = "cou_pending"
    /\ procs[a].rowId = r.id
    /\ r.initiatedById = procs[a].userId
    /\ r.status = "ACCEPTED"
    /\ procs[b].op = "sendMessage"
    /\ procs[b].userId = procs[a].otherId
    /\ procs[b].pc \in {"sm_create", "done"}

\* C30: a send of the initiator that read the DmRequest before the reply of
\* the other user accepted it does not write the status back to PENDING: the
\* row is still ACCEPTED after the initiator's write.
C30_AutoAcceptSurvivesInitiatorSend ==
    [][\A a \in Procs, b \in Procs, r \in dmRequests :
           (InitiatorWritesAfterReply(a, b, r) /\ StepBy(a)) =>
               \A r2 \in dmRequests' : r2.id = r.id => r2.status = "ACCEPTED"]_vars

\* ---------------------------------------------------------------- dm_requests, creation
\* The DmRequest rows a step inserts.
CreatedDmRequests == {r2 \in dmRequests' : \A r \in dmRequests : r.id # r2.id}

\* C31: every DmRequest row is created with status PENDING and with
\* initiatedBy naming the user whose call created it, in sendMessage, in
\* createOrUpdateDmRequest and in autoAcceptDmRequestOnReply called when the
\* pair has no row.
C31_RowsAreCreatedPending ==
    [][\A r2 \in CreatedDmRequests :
           /\ r2.status = "PENDING"
           /\ \A p \in Procs : StepBy(p) => r2.initiatedById = procs[p].userId]_vars

\* ---------------------------------------------------------------- sendMessage, order of effects
\* The steps of sendMessage from prisma.message.create on.
AfterDmRequestStep == {"sm_create", "sm_pref", "sm_langs", "sm_touch"}

\* The DM-request step of the send of p has completed: the pair are ACCEPTED
\* friends and need no request, or their DmRequest row is PENDING or ACCEPTED
\* and carries a time of this send.
DmRequestStepCompleted(p) ==
    \/ ~CanSendMessage(procs[p].userId, procs[p].otherId).requiresDmRequest
    \/ /\ FindDmRequest(procs[p].userId, procs[p].otherId) # {}
       /\ \A r \in FindDmRequest(procs[p].userId, procs[p].otherId) :
              r.status \in {"PENDING", "ACCEPTED"}
       /\ RefreshedBySend(p)

\* C32: in sendMessage on the DM chat the message row is created only after
\* canSendMessage allowed the send and the DM-request step completed without
\* error; a send that is denied, or whose DM-request step fails, creates no
\* message row and starts no translation job.
C32_MessageAfterPermissionAndDmRequest ==
    /\ [](\A p \in Procs :
              (procs[p].op = "sendMessage" /\ procs[p].chatId = DmChat
                   /\ procs[p].pc \in AfterDmRequestStep) =>
                  /\ CanSendMessage(procs[p].userId, procs[p].otherId).allowed
                  /\ DmRequestStepCompleted(p))
    /\ [](\A p \in Procs :
              (Done(p, "sendMessage") /\ procs[p].res # "ok") =>
                  procs[p].msg = 0)
    /\ [][\A p \in Procs :
              (StepBy(p) /\ procs[p].op = "sendMessage"
                   /\ procs[p].pc \notin AfterDmRequestStep) =>
                  UNCHANGED <<messages, dispatch, queue>>]_vars

\* A send that canSendMessage allowed has failed in its DM-request step, on
\* a BLOCKED row, and has created no message.
C32_Witness ==
    \E p \in Procs :
        /\ Done(p, "sendMessage")
        /\ procs[p].res = "Forbidden"
        /\ CanSendMessage(procs[p].userId, procs[p].otherId).allowed
        /\ procs[p].msg = 0
        /\ \E r \in DmRequestsBefore(p) : r.status = "BLOCKED"

\* ---------------------------------------------------------------- message:translated
\* The MessageTranslation rows an event tells of.
RowsOfEvent(e) == {t \in FindTranslation(e.messageId, e.lang) : t.content = e.content}

\* C33: a 'message:translated' event for (messageId, lang) is published, to
\* the room of the job's chat, only by an execution that has inserted the
\* MessageTranslation row for that key, and it carries the content of the
\* stored row; an execution that finds an existing row, finds the message
\* deleted or fails in translate publishes nothing.
C33_EventFollowsStoredTranslation ==
    /\ [](\A e \in events : RowsOfEvent(e) # {} /\ e.room = e.chatId)
    /\ [][events' # events =>
              \E w \in Workers :
                  /\ workers[w].pc = "w_emit"
                  /\ workers'[w] = IdleWorker
                  /\ \E t \in translations :
                         /\ t.id = <<workers[w].jobId, w>>
                         /\ events' = events \cup
                                {[room |-> workers[w].data.chatId,
                                  chatId |-> workers[w].data.chatId,
                                  messageId |-> t.messageId, lang |-> t.lang,
                                  content |-> t.content]}]_vars
    /\ [][\A w \in Workers :
              (workers[w].pc \in {"w_message", "w_existing", "w_translate", "w_create"}
                   /\ workers'[w] # workers[w]) => events' = events]_vars

\* A job delivered to two executions has completed and both are over: one
\* event was published for the one row stored.
C33_Witness ==
    /\ \E j \in queue :
           /\ j.stalled
           /\ j.state = "completed"
           /\ \E e \in events : JobId([messageId |-> e.messageId, toLang |-> e.lang]) = j.id
    /\ \A w \in Workers : workers[w].pc = "idle"
    /\ Cardinality(events) = 1
    /\ Cardinality(translations) = 1

\* ---------------------------------------------------------------- other pairs
\* The rows that involve the third user.
BlocksWithThirdUser == {b \in blocks : ThirdUser \in {b.blockerId, b.blockedId}}

RowsWithThirdUser(tbl) == {r \in tbl : ThirdUser \in {r.userAId, r.userBId}}

\* C34: the requests between the two users (sends, createOrUpdateDmRequest,
\* autoAcceptDmRequestOnReply, acceptDmRequest, declineDmRequest,
\* blockViaDmRequest, blockUser, unblockUser and the friendship calls) leave
\* the Block, Friendship and DmRequest rows each of them has with a third
\* user as they were.
C34_OtherPairsUntouched ==
    /\ BlocksWithThirdUser = OtherPairsBlocks
    /\ RowsWithThirdUser(friendships) = OtherPairsFriendships
    /\ RowsWithThirdUser(dmRequests) = OtherPairsDmRequests

\* The two users have a BLOCKED DmRequest, a Block and a DECLINED
\* Friendship of their own, next to the rows with the third user.
C34_Witness ==
    /\ \E r \in dmRequests \ OtherPairsDmRequests : r.status = "BLOCKED"
    /\ blocks \ OtherPairsBlocks # {}
    /\ \E f \in friendships \ OtherPairsFriendships : f.status = "DECLINED"

\* ---------------------------------------------------------------- BLOCKED requests
\* C35: in every state, also between the steps of blockViaDmRequest and
\* after blockUser and unblockUser, a DmRequest with status BLOCKED has a
\* Block row from the user who did not initiate it to the initiator.
C35_BlockedRequestHasBlock ==
    \A r \in dmRequests :
        r.status = "BLOCKED" =>
            \E b \in blocks :
                /\ b.blockedId = r.initiatedById
                /\ b.blockerId \in {r.userAId, r.userBId} \ {r.initiatedById}

\* ---------------------------------------------------------------- allowed sends
\* C36: a sendMessage in the DM chat that arrives when canSendMessage allows
\* the sender is not rejected with Forbidden and its message is stored,
\* whatever the status of the pair's DmRequest.
C36_AllowedSendIsPersisted ==
    \A p \in Procs :
        ( /\ Done(p, "sendMessage")
          /\ procs[p].chatId = DmChat
          /\ BlocksBetween(procs[p].pre.blocks, procs[p].userId, procs[p].otherId) = {}
          /\ CanSendMessage(procs[p].userId, procs[p].otherId).allowed )
        => /\ procs[p].res # "Forbidden"
           /\ Persisted(p)

\* ---------------------------------------------------------------- ACCEPTED requests
\* C37: with requests served one at a time, an ACCEPTED DmRequest changes
\* status only in blockViaDmRequest, to BLOCKED: no send, acceptDmRequest or
\* declineDmRequest moves it to PENDING or DECLINED.
C37_AcceptedLeftOnlyByBlock ==
    [][\A r \in dmRequests, r2 \in dmRequests' :
           (r.status = "ACCEPTED" /\ r2.id = r.id /\ r2.status # "ACCEPTED") =>
               /\ r2.status = "BLOCKED"
               /\ \A p \in Procs : StepBy(p) => procs[p].op = "blockViaDmRequest"]_vars

\* ---------------------------------------------------------------- sends racing blocks
\* C38: however sendMessage interleaves with blockUser and
\* blockViaDmRequest, no message row is created in the DM chat while a Block
\* row exists between its two users, in either direction.
C38_NoMessageCreatedUnderBlock ==
    [][\A p \in Procs :
           ( /\ StepBy(p)
             /\ procs[p].pc = "sm_create"
             /\ procs[p].chatId = DmChat
             /\ Len(messages') = Len(messages) + 1 )
           => BlocksBetween(blocks, procs[p].userId, procs[p].otherId) = {}]_vars

\* ---------------------------------------------------------------- the language of a message
\* The language a message was sent in: the fromLang its send computed for
\* its translation jobs.
SentInLanguage(id) == {d.fromLang : d \in {d \in dispatch : d.messageId = id}}

\* C39: the langOriginal getMessages reports for a message is the sender's
\* myLanguage at the time of the send, also after the sender has set another
\* language preference; and a reader who has a MessageTranslation row in the
\* viewLanguage is shown that translation, not the text as written under
\* the label of the viewLanguage.
C39_LangOriginalIsLanguageOfSend ==
    \A p \in Procs :
        Done(p, "getMessages") =>
            \A k \in 1..Len(procs[p].page) :
                LET shown == procs[p].page[k]
                IN  /\ \A fromLang \in SentInLanguage(shown.id) :
                           shown.langOriginal = fromLang
                    /\ \A t \in FindTranslation(shown.id, procs[p].lang) :
                           shown.langShown = procs[p].lang =>
                               shown.content = t.content

\* ---------------------------------------------------------------- translations of edited messages
\* C40: whenever a MessageTranslation row exists for a message that is not
\* deleted, its content is the translation of the message's current content,
\* also after editMessage and when the message is edited between the
\* dispatch of the job and its execution.
C40_TranslationMatchesCurrentContent ==
    \A t \in translations :
        (t.messageId \in 1..Len(messages) /\ ~messages[t.messageId].deletedAt) =>
            t.content = Translate(messages[t.messageId].content)
====
